---- MODULE Spec2Model ----
(***************************************************************************)
(* A model of the ConfigurableFirmata protocol engine (FirmataClass in     *)
(* src/src/ConfigurableFirmata.cpp and .h): the incremental byte parser,   *)
(* the sysex dispatcher, the callback registry, the pin table and the      *)
(* block mode of processInput().                                           *)
(*                                                                         *)
(* The engine's fields are the variables below, under their source names.  *)
(* The methods are operators from an engine record to an engine record,    *)
(* translated statement by statement; an action applies one method to the  *)
(* current engine.  Bytes are integers in 0..255.                          *)
(***************************************************************************)
EXTENDS Integers, Sequences, FiniteSets, TLC

(***************************************************************************)
(* Protocol constants (ConfigurableFirmata.h).                             *)
(***************************************************************************)
DIGITAL_MESSAGE == 144
ANALOG_MESSAGE == 224
REPORT_ANALOG == 192
REPORT_DIGITAL == 208
SET_PIN_MODE == 244
SET_DIGITAL_PIN_VALUE == 245
REPORT_VERSION == 249
SYSTEM_RESET == 255
START_SYSEX == 240
END_SYSEX == 247
EXTENDED_ANALOG == 111
STRING_DATA == 113
REPORT_FIRMWARE == 121
PIN_MODE_IGNORE == 127
FIRMATA_PROTOCOL_MAJOR_VERSION == 2
FIRMATA_PROTOCOL_MINOR_VERSION == 7
NULL == 0

(***************************************************************************)
(* Bounds of the model.                                                    *)
(***************************************************************************)
\* Number of pins of the board (Boards.h, outside the repository's sources).
TOTAL_PINS == 2
\* Sysex payload positions below MaxPrefix take any data byte of the
\* alphabet; later positions are fed the filler byte only.
MaxPrefix == 2
\* Longest block processInput() reads at once in the block-mode model.
MaxBlock == 5
\* Number of filler bytes the host sends in one run of a long sysex payload.
RunLength == 31
\* Payload bytes of a sysex message, in the message specification.
MaxPayload == 4
\* Categories the sketch keeps attached at a time, in the registry
\* specification.
MaxAttached == 2

VARIABLES
  LARGE_MEM_DEVICE,          \* the build: TRUE when LARGE_MEM_DEVICE is defined
  waitForData,
  executeMultiByteCommand,
  multiByteChannel,
  storedInputData,
  parsingSysex,
  sysexBytesRead,
  pinConfig,
  pinState,
  firmwareVersionName,
  firmwareVersionMajor,
  firmwareVersionMinor,
  currentDigitalCallback,
  currentReportAnalogCallback,
  currentReportDigitalCallback,
  currentPinModeCallback,
  currentPinValueCallback,
  currentSystemResetCallback,
  currentStringCallback,
  currentSysexCallback,
  calls,                     \* handler invocations made by the last operation
  out,                       \* bytes the last operation wrote to FirmataStream
  bufferOverrun,             \* storedInputData was accessed outside its bounds
  pinOverrun,                \* pinConfig/pinState was accessed outside its bounds
  lastOp,                    \* the last operation and its arguments
  pre,                       \* parser fields before the last operation
  reference                  \* block mode: the same block fed byte by byte

vars == << LARGE_MEM_DEVICE, waitForData, executeMultiByteCommand,
           multiByteChannel, storedInputData, parsingSysex, sysexBytesRead,
           pinConfig, pinState, firmwareVersionName, firmwareVersionMajor,
           firmwareVersionMinor, currentDigitalCallback,
           currentReportAnalogCallback, currentReportDigitalCallback,
           currentPinModeCallback, currentPinValueCallback,
           currentSystemResetCallback, currentStringCallback,
           currentSysexCallback, calls, out, bufferOverrun, pinOverrun,
           lastOp, pre, reference >>

\* Capacity of storedInputData in the build at hand.
MAX_DATA_BYTES == IF LARGE_MEM_DEVICE THEN 252 ELSE 64

\* The engine as one record.
Engine ==
  [ waitForData |-> waitForData,
    executeMultiByteCommand |-> executeMultiByteCommand,
    multiByteChannel |-> multiByteChannel,
    storedInputData |-> storedInputData,
    parsingSysex |-> parsingSysex,
    sysexBytesRead |-> sysexBytesRead,
    pinConfig |-> pinConfig,
    pinState |-> pinState,
    firmwareVersionName |-> firmwareVersionName,
    firmwareVersionMajor |-> firmwareVersionMajor,
    firmwareVersionMinor |-> firmwareVersionMinor,
    currentDigitalCallback |-> currentDigitalCallback,
    currentReportAnalogCallback |-> currentReportAnalogCallback,
    currentReportDigitalCallback |-> currentReportDigitalCallback,
    currentPinModeCallback |-> currentPinModeCallback,
    currentPinValueCallback |-> currentPinValueCallback,
    currentSystemResetCallback |-> currentSystemResetCallback,
    currentStringCallback |-> currentStringCallback,
    currentSysexCallback |-> currentSysexCallback,
    calls |-> calls,
    out |-> out,
    bufferOverrun |-> bufferOverrun,
    pinOverrun |-> pinOverrun ]

\* The engine at the start of an operation: nothing invoked or written yet.
Entry == [Engine EXCEPT !.calls = << >>, !.out = << >>]

\* The fields of the engine after an operation that left it as e.
Become(e) ==
  /\ waitForData' = e.waitForData
  /\ executeMultiByteCommand' = e.executeMultiByteCommand
  /\ multiByteChannel' = e.multiByteChannel
  /\ storedInputData' = e.storedInputData
  /\ parsingSysex' = e.parsingSysex
  /\ sysexBytesRead' = e.sysexBytesRead
  /\ pinConfig' = e.pinConfig
  /\ pinState' = e.pinState
  /\ firmwareVersionName' = e.firmwareVersionName
  /\ firmwareVersionMajor' = e.firmwareVersionMajor
  /\ firmwareVersionMinor' = e.firmwareVersionMinor
  /\ currentDigitalCallback' = e.currentDigitalCallback
  /\ currentReportAnalogCallback' = e.currentReportAnalogCallback
  /\ currentReportDigitalCallback' = e.currentReportDigitalCallback
  /\ currentPinModeCallback' = e.currentPinModeCallback
  /\ currentPinValueCallback' = e.currentPinValueCallback
  /\ currentSystemResetCallback' = e.currentSystemResetCallback
  /\ currentStringCallback' = e.currentStringCallback
  /\ currentSysexCallback' = e.currentSysexCallback
  /\ calls' = e.calls
  /\ out' = e.out
  /\ bufferOverrun' = e.bufferOverrun
  /\ pinOverrun' = e.pinOverrun
  /\ LARGE_MEM_DEVICE' = LARGE_MEM_DEVICE

\* The parser fields an operation started from.
Snapshot ==
  [ parsingSysex |-> parsingSysex,
    waitForData |-> waitForData,
    sysexBytesRead |-> sysexBytesRead ]

(***************************************************************************)
(* Collaborators: the transport and the registered handlers.  A handler    *)
(* is opaque: its invocation is recorded with its arguments.               *)
(***************************************************************************)
\* FirmataStream->write of the bytes, in order.
StreamWrite(e, bytes) == [e EXCEPT !.out = @ \o bytes]

\* (*handler)(args) through a callback slot.
Invoke(e, category, handler, args) ==
  [e EXCEPT !.calls = Append(@, [cb |-> category, fn |-> handler, args |-> args])]

\* storedInputData[idx] = val
StoreInputData(e, idx, val) ==
  IF idx \in 0..(MAX_DATA_BYTES - 1)
  THEN [e EXCEPT !.storedInputData[idx] = val]
  ELSE [e EXCEPT !.bufferOverrun = TRUE]

\* storedInputData[idx] as an rvalue
ReadInputData(e, idx) ==
  IF idx \in 0..(MAX_DATA_BYTES - 1) THEN e.storedInputData[idx] ELSE 0

\* C integer division, which truncates toward zero.
CDiv(a, b) == IF a >= 0 THEN a \div b ELSE -((-a) \div b)

(***************************************************************************)
(* Encoder.                                                                *)
(***************************************************************************)
sendValueAsTwo7bitBytes(e, value) ==
  StreamWrite(e, << value % 128, (value \div 128) % 128 >>)

startSysex(e) == StreamWrite(e, << START_SYSEX >>)

endSysex(e) == StreamWrite(e, << END_SYSEX >>)

printVersion(e) ==
  StreamWrite(e, << REPORT_VERSION, FIRMATA_PROTOCOL_MAJOR_VERSION,
                    FIRMATA_PROTOCOL_MINOR_VERSION >>)

RECURSIVE sendChars(_, _, _, _)
\* for (; i < len; i++) sendValueAsTwo7bitBytes(text[i]), text[k] of the
\* source being text[k + 1] here; the loop over i..len-1 is the loop over the
\* first half of the range followed by the loop over the second half (the
\* test on the first half's output always holds: it makes TLC compute that
\* output before the second half is sent).
sendChars(e, text, i, len) ==
  IF i >= len THEN e
  ELSE IF i + 1 = len THEN sendValueAsTwo7bitBytes(e, text[i + 1])
  ELSE LET mid == (i + len) \div 2
           firstHalf == sendChars(e, text, i, mid)
       IN IF Len(firstHalf.out) >= 0
          THEN sendChars(firstHalf, text, mid, len)
          ELSE firstHalf

printFirmwareVersion(e) ==
  IF e.firmwareVersionMajor # 0
  THEN LET h == StreamWrite(startSysex(e),
                            << REPORT_FIRMWARE, e.firmwareVersionMajor,
                               e.firmwareVersionMinor >>)
       IN endSysex(sendChars(h, e.firmwareVersionName, 0, Len(e.firmwareVersionName)))
  ELSE e

\* sendString(const FlashString*)
sendString(e, flashString) ==
  endSysex(sendChars(StreamWrite(startSysex(e), << STRING_DATA >>), flashString,
                     0, Len(flashString)))

\* F("Discarding input message, out of buffer")
DiscardingInputMessage ==
  << 68, 105, 115, 99, 97, 114, 100, 105, 110, 103, 32, 105, 110, 112, 117,
     116, 32, 109, 101, 115, 115, 97, 103, 101, 44, 32, 111, 117, 116, 32,
     111, 102, 32, 98, 117, 102, 102, 101, 114 >>

(***************************************************************************)
(* Packed integers.  An unsigned value of C is the function from its bit   *)
(* positions to 0 or 1, so that shifts, masks and conversions keep their   *)
(* width; a byte on the wire is a number in 0..255.                        *)
(***************************************************************************)
\* The unsigned value of the given width that equals n.
ToBits(n, width) == [i \in 0..(width - 1) |-> (n \div (2 ^ i)) % 2]

RECURSIVE Field(_, _, _)
\* (byte)((value >> shift) & (2^count - 1))
Field(value, shift, count) ==
  IF count = 0 THEN 0
  ELSE LET i == shift + count - 1
           top == IF i \in DOMAIN value THEN value[i] ELSE 0
       IN top * (2 ^ (count - 1)) + Field(value, shift, count - 1)

\* value >> shift, converted to an unsigned value of the given width
ShiftRight(value, shift, width) ==
  [i \in 0..(width - 1) |->
     IF (i + shift) \in DOMAIN value THEN value[i + shift] ELSE 0]

\* sendPackedUInt32() with 0x07 for 0x0F in its last mask.
sendPackedUInt32DropsTopBit(e, value) ==
  StreamWrite(e, << Field(value, 0, 7), Field(value, 7, 7), Field(value, 14, 7),
                    Field(value, 21, 7), Field(value, 28, 3) >>)

sendPackedUInt32(e, value) ==
  StreamWrite(e, << Field(value, 0, 7), Field(value, 7, 7), Field(value, 14, 7),
                    Field(value, 21, 7), Field(value, 28, 4) >>)

\* sendPackedUInt64() that sends the high word first.
sendPackedUInt64HighFirst(e, value) ==
  sendPackedUInt32(sendPackedUInt32(e, ShiftRight(value, 32, 32)),
                   ShiftRight(value, 0, 32))

\* value & 0xFFFFFFFF and value >> 32, each converted to uint32_t
sendPackedUInt64(e, value) ==
  sendPackedUInt32(sendPackedUInt32(e, ShiftRight(value, 0, 32)),
                   ShiftRight(value, 32, 32))

sendPackedUInt14(e, value) ==
  StreamWrite(e, << Field(value, 0, 7), Field(value, 7, 7) >>)

\* Bit i of the uint32_t that is the bitwise or of ((uint32_t)argv[k]) << 7k
\* over the given k, argv[k] of the source being argv[k + 1] here.
OrOfShiftedBytes(argv, ks, i) ==
  IF \E k \in ks : (i - 7 * k) \in 0..7 /\ (argv[k + 1] \div (2 ^ (i - 7 * k))) % 2 = 1
  THEN 1 ELSE 0

decodePackedUInt32(argv) == [i \in 0..31 |-> OrOfShiftedBytes(argv, 0..4, i)]

\* The two words occupy disjoint bits of the result: the sums carry nothing.
decodePackedUInt64(argv) ==
  LET low == decodePackedUInt32(SubSeq(argv, 1, 5))
      high == decodePackedUInt32(SubSeq(argv, 6, 10))
  IN [i \in 0..63 |-> IF i < 32 THEN low[i] ELSE high[i - 32]]

\* (uint16_t) of the uint32_t result
decodePackedUInt14(argv) == [i \in 0..15 |-> OrOfShiftedBytes(argv, 0..1, i)]

(***************************************************************************)
(* System reset and pin table.                                             *)
(***************************************************************************)
\* systemReset() that forgets the pending command and the buffer.
systemResetKeepsMessage(e) ==
  LET r == [e EXCEPT !.waitForData = 0,
                     !.parsingSysex = FALSE,
                     !.sysexBytesRead = 0]
  IN IF r.currentSystemResetCallback # NULL
     THEN Invoke(r, "systemReset", r.currentSystemResetCallback, << >>)
     ELSE r

systemReset(e) ==
  LET r == [e EXCEPT !.waitForData = 0,
                     !.executeMultiByteCommand = 0,
                     !.multiByteChannel = 0,
                     !.storedInputData = [i \in 0..(MAX_DATA_BYTES - 1) |-> 0],
                     !.parsingSysex = FALSE,
                     !.sysexBytesRead = 0]
  IN IF r.currentSystemResetCallback # NULL
     THEN Invoke(r, "systemReset", r.currentSystemResetCallback, << >>)
     ELSE r

\* setPinMode() without its PIN_MODE_IGNORE guard.
setPinModeUnguarded(e, pin, config) ==
  IF pin >= TOTAL_PINS THEN [e EXCEPT !.pinOverrun = TRUE]
  ELSE LET s == [e EXCEPT !.pinState[pin] = 0, !.pinConfig[pin] = config]
       IN IF s.currentPinModeCallback # NULL
          THEN Invoke(s, "pinMode", s.currentPinModeCallback, << pin, config >>)
          ELSE s

\* setPinMode() without the zeroing of the pin's state.
setPinModeKeepsState(e, pin, config) ==
  IF pin >= TOTAL_PINS THEN [e EXCEPT !.pinOverrun = TRUE]
  ELSE IF e.pinConfig[pin] = PIN_MODE_IGNORE THEN e
  ELSE LET s == [e EXCEPT !.pinConfig[pin] = config]
       IN IF s.currentPinModeCallback # NULL
          THEN Invoke(s, "pinMode", s.currentPinModeCallback, << pin, config >>)
          ELSE s

\* An index outside pinConfig/pinState addresses memory behind the tables:
\* the outcome is undefined and the engine is marked as overrun.
setPinMode(e, pin, config) ==
  IF pin >= TOTAL_PINS THEN [e EXCEPT !.pinOverrun = TRUE]
  ELSE IF e.pinConfig[pin] = PIN_MODE_IGNORE THEN e
  ELSE LET s == [e EXCEPT !.pinState[pin] = 0, !.pinConfig[pin] = config]
       IN IF s.currentPinModeCallback # NULL
          THEN Invoke(s, "pinMode", s.currentPinModeCallback, << pin, config >>)
          ELSE s

setPinState(e, pin, state) ==
  IF pin >= TOTAL_PINS THEN [e EXCEPT !.pinOverrun = TRUE]
  ELSE [e EXCEPT !.pinState[pin] = state]

(***************************************************************************)
(* Callback registry.  attach() is overloaded on the handler's type.       *)
(***************************************************************************)
\* attach(byte command, callbackFunction newFunction)
attachCallback(e, command, newFunction) ==
  CASE command = DIGITAL_MESSAGE ->
         [e EXCEPT !.currentDigitalCallback = newFunction]
    [] command = REPORT_ANALOG ->
         [e EXCEPT !.currentReportAnalogCallback = newFunction]
    [] command = REPORT_DIGITAL ->
         [e EXCEPT !.currentReportDigitalCallback = newFunction]
    [] command = SET_PIN_MODE ->
         [e EXCEPT !.currentPinModeCallback = newFunction]
    [] command = SET_DIGITAL_PIN_VALUE ->
         [e EXCEPT !.currentPinValueCallback = newFunction]
    [] OTHER -> e

\* attach(byte command, systemResetCallbackFunction newFunction)
attachSystemReset(e, command, newFunction) ==
  IF command = SYSTEM_RESET
  THEN [e EXCEPT !.currentSystemResetCallback = newFunction]
  ELSE e

\* attach(byte command, stringCallbackFunction newFunction)
attachString(e, command, newFunction) ==
  IF command = STRING_DATA
  THEN [e EXCEPT !.currentStringCallback = newFunction]
  ELSE e

\* attach(byte command, sysexCallbackFunction newFunction)
attachSysex(e, command, newFunction) ==
  [e EXCEPT !.currentSysexCallback = newFunction]

\* detach() without the case for the sysex handler.
detachIgnoresSysex(e, command) ==
  CASE command = SYSTEM_RESET -> [e EXCEPT !.currentSystemResetCallback = NULL]
    [] command = STRING_DATA -> [e EXCEPT !.currentStringCallback = NULL]
    [] OTHER -> attachCallback(e, command, NULL)

\* detach(byte command)
detach(e, command) ==
  CASE command = SYSTEM_RESET -> [e EXCEPT !.currentSystemResetCallback = NULL]
    [] command = STRING_DATA -> [e EXCEPT !.currentStringCallback = NULL]
    [] command = START_SYSEX -> [e EXCEPT !.currentSysexCallback = NULL]
    [] OTHER -> attachCallback(e, command, NULL)

\* A sketch's setup(): a handler attached to every category.
attachAll(e, fn) ==
  LET a == attachCallback(e, DIGITAL_MESSAGE, fn)
      b == attachCallback(a, REPORT_ANALOG, fn)
      c == attachCallback(b, REPORT_DIGITAL, fn)
      d == attachCallback(c, SET_PIN_MODE, fn)
      f == attachCallback(d, SET_DIGITAL_PIN_VALUE, fn)
      g == attachSystemReset(f, SYSTEM_RESET, fn)
      h == attachString(g, STRING_DATA, fn)
  IN attachSysex(h, START_SYSEX, fn)

(***************************************************************************)
(* Dispatcher.                                                             *)
(***************************************************************************)
RECURSIVE decodeString(_, _, _, _)
\* while (j < bufferLength) { ... } of the STRING_DATA case, entered with
\* the given i and j; the iterations j..bufferLength-1 are those of the first
\* half of the range followed by those of the second half; nothing is
\* modelled of what follows a write outside the buffer.
decodeString(e, i, j, bufferLength) ==
  IF j >= bufferLength THEN e
  ELSE IF j + 1 = bufferLength
  THEN LET a == StoreInputData(e, j, ReadInputData(e, i))
       IN StoreInputData(a, j,
            (ReadInputData(a, j) + ReadInputData(a, i + 1) * 128) % 256)
  ELSE LET mid == (j + bufferLength) \div 2
           firstHalf == decodeString(e, i, j, mid)
       IN IF firstHalf.bufferOverrun THEN firstHalf
          ELSE decodeString(firstHalf, i + 2 * (mid - j), mid, bufferLength)

\* The zero-terminated string a handler reads at &storedInputData[k] (the
\* bytes of it that are in the buffer).
CString(e, k) ==
  LET ends == { n \in k..MAX_DATA_BYTES :
                  n = MAX_DATA_BYTES \/ e.storedInputData[n] = 0 }
      end == CHOOSE n \in ends : \A m \in ends : n <= m
  IN [x \in 1..(end - k) |-> e.storedInputData[k + x - 1]]

\* The argc bytes a handler reads at storedInputData + 1 (those in the buffer).
Payload(e, argc) ==
  [k \in 1..(IF argc < MAX_DATA_BYTES - 1 THEN argc ELSE MAX_DATA_BYTES - 1)
     |-> e.storedInputData[k]]

\* processSysexMessage() decoding the string from the sub-command byte on.
processSysexMessageDecodesCommand(e) ==
  LET command == ReadInputData(e, 0) IN
  CASE command = REPORT_FIRMWARE -> printFirmwareVersion(e)
    [] command = STRING_DATA ->
         IF e.currentStringCallback # NULL
         THEN LET bufferLength == CDiv(e.sysexBytesRead - 1, 2) % 256 IN
              IF bufferLength <= 0 THEN e
              ELSE LET d == decodeString(e, 0, 0, bufferLength)
                       t == IF ReadInputData(d, bufferLength - 1) # 0
                            THEN StoreInputData(d, bufferLength, 0)
                            ELSE d
                   IN Invoke(t, "string", t.currentStringCallback, CString(t, 0))
         ELSE e
    [] OTHER ->
         IF e.currentSysexCallback # NULL
         THEN LET argc == (e.sysexBytesRead - 1) % 256 IN
              Invoke(e, "sysex", e.currentSysexCallback,
                     << command, argc >> \o Payload(e, argc))
         ELSE e

\* processSysexMessage()
processSysexMessage(e) ==
  LET command == ReadInputData(e, 0) IN
  CASE command = REPORT_FIRMWARE -> printFirmwareVersion(e)
    [] command = STRING_DATA ->
         IF e.currentStringCallback # NULL
         THEN LET bufferLength == CDiv(e.sysexBytesRead - 1, 2) % 256 IN
              IF bufferLength <= 0 THEN e
              ELSE LET d == decodeString(e, 1, 0, bufferLength)
                       t == IF ReadInputData(d, bufferLength - 1) # 0
                            THEN StoreInputData(d, bufferLength, 0)
                            ELSE d
                   IN Invoke(t, "string", t.currentStringCallback, CString(t, 0))
         ELSE e
    [] OTHER ->
         IF e.currentSysexCallback # NULL
         THEN LET argc == (e.sysexBytesRead - 1) % 256 IN
              Invoke(e, "sysex", e.currentSysexCallback,
                     << command, argc >> \o Payload(e, argc))
         ELSE e

(***************************************************************************)
(* Parser.                                                                 *)
(***************************************************************************)
resetParser(e) ==
  [e EXCEPT !.parsingSysex = FALSE, !.sysexBytesRead = 0,
            !.waitForData = 0, !.executeMultiByteCommand = 0]

\* The reset branch of parse() if it also zeroed the pin states.
parseSystemResetClearsStates(e) ==
  systemReset([e EXCEPT !.parsingSysex = FALSE, !.sysexBytesRead = 0,
                        !.waitForData = 0,
                        !.pinState = [p \in 0..(TOTAL_PINS - 1) |-> 0]])

\* The reset branch of parse() if it also set every pin back to mode 0.
parseSystemResetClearsModes(e) ==
  systemReset([e EXCEPT !.parsingSysex = FALSE, !.sysexBytesRead = 0,
                        !.waitForData = 0,
                        !.pinConfig = [p \in 0..(TOTAL_PINS - 1) |-> 0]])

\* if (inputData == SYSTEM_RESET) { ... }
parseSystemReset(e) ==
  systemReset([e EXCEPT !.parsingSysex = FALSE, !.sysexBytesRead = 0,
                        !.waitForData = 0])

\* The overflow test with > for ==: the full buffer is not noticed.
discardInputMessageLate(e) ==
  IF e.sysexBytesRead > MAX_DATA_BYTES
  THEN [sendString(e, DiscardingInputMessage)
          EXCEPT !.parsingSysex = FALSE, !.sysexBytesRead = 0, !.waitForData = 0]
  ELSE e

\* The overflow path without its waitForData = 0.
discardInputMessageKeepsWait(e) ==
  IF e.sysexBytesRead = MAX_DATA_BYTES
  THEN [sendString(e, DiscardingInputMessage)
          EXCEPT !.parsingSysex = FALSE, !.sysexBytesRead = 0]
  ELSE e

\* if (sysexBytesRead == MAX_DATA_BYTES) { ... }
discardInputMessage(e) ==
  IF e.sysexBytesRead = MAX_DATA_BYTES
  THEN [sendString(e, DiscardingInputMessage)
          EXCEPT !.parsingSysex = FALSE, !.sysexBytesRead = 0, !.waitForData = 0]
  ELSE e

\* if (parsingSysex) { ... }
parseSysex(e, inputData) ==
  IF inputData = END_SYSEX
  THEN processSysexMessage([e EXCEPT !.parsingSysex = FALSE])
  ELSE LET s == StoreInputData(e, e.sysexBytesRead, inputData)
       IN discardInputMessage([s EXCEPT !.sysexBytesRead = @ + 1])

\* The repacking with END_SYSEX counted among the bytes read.
repackAnalogMessageCountsEnd(e) ==
  LET b0 == ReadInputData(e, 0)
      b1 == ReadInputData(e, 1)
      s0 == StoreInputData(e, 0, EXTENDED_ANALOG)
      s1 == StoreInputData(s0, 1, e.multiByteChannel)
      s2 == StoreInputData(s1, 2, b1)
      s3 == StoreInputData(s2, 3, b0)
      s4 == StoreInputData(s3, 4, END_SYSEX)
  IN processSysexMessage([s4 EXCEPT !.sysexBytesRead = 5])

\* The repacking with the two value bytes in the buffer's order.
repackAnalogMessageHighFirst(e) ==
  LET b0 == ReadInputData(e, 0)
      b1 == ReadInputData(e, 1)
      s0 == StoreInputData(e, 0, EXTENDED_ANALOG)
      s1 == StoreInputData(s0, 1, e.multiByteChannel)
      s2 == StoreInputData(s1, 2, b0)
      s3 == StoreInputData(s2, 3, b1)
      s4 == StoreInputData(s3, 4, END_SYSEX)
  IN processSysexMessage([s4 EXCEPT !.sysexBytesRead = 4])

\* case ANALOG_MESSAGE of the completed fixed-length message
repackAnalogMessage(e) ==
  LET b0 == ReadInputData(e, 0)
      b1 == ReadInputData(e, 1)
      s0 == StoreInputData(e, 0, EXTENDED_ANALOG)
      s1 == StoreInputData(s0, 1, e.multiByteChannel)
      s2 == StoreInputData(s1, 2, b1)
      s3 == StoreInputData(s2, 3, b0)
      s4 == StoreInputData(s3, 4, END_SYSEX)
  IN processSysexMessage([s4 EXCEPT !.sysexBytesRead = 4])

\* The dispatch reading the data bytes as if the buffer held them in
\* arrival order.
executeCommandInArrivalOrder(e) ==
  LET d0 == ReadInputData(e, 1)
      d1 == ReadInputData(e, 0)
      c == e.executeMultiByteCommand
  IN
  CASE c = ANALOG_MESSAGE -> repackAnalogMessage(e)
    [] c = DIGITAL_MESSAGE ->
         IF e.currentDigitalCallback # NULL
         THEN Invoke(e, "digital", e.currentDigitalCallback,
                     << e.multiByteChannel, d0 * 128 + d1 >>)
         ELSE e
    [] c = SET_PIN_MODE -> setPinMode(e, d1, d0)
    [] c = SET_DIGITAL_PIN_VALUE ->
         IF e.currentPinValueCallback # NULL
         THEN Invoke(e, "pinValue", e.currentPinValueCallback, << d1, d0 >>)
         ELSE e
    [] c = REPORT_ANALOG ->
         IF e.currentReportAnalogCallback # NULL
         THEN Invoke(e, "reportAnalog", e.currentReportAnalogCallback,
                     << e.multiByteChannel, d0 >>)
         ELSE e
    [] c = REPORT_DIGITAL ->
         IF e.currentReportDigitalCallback # NULL
         THEN Invoke(e, "reportDigital", e.currentReportDigitalCallback,
                     << e.multiByteChannel, d0 >>)
         ELSE e
    [] OTHER -> e

\* switch (executeMultiByteCommand) { ... }
executeCommand(e) ==
  LET d0 == ReadInputData(e, 0)
      d1 == ReadInputData(e, 1)
      c == e.executeMultiByteCommand
  IN
  CASE c = ANALOG_MESSAGE -> repackAnalogMessage(e)
    [] c = DIGITAL_MESSAGE ->
         IF e.currentDigitalCallback # NULL
         THEN Invoke(e, "digital", e.currentDigitalCallback,
                     << e.multiByteChannel, d0 * 128 + d1 >>)
         ELSE e
    [] c = SET_PIN_MODE -> setPinMode(e, d1, d0)
    [] c = SET_DIGITAL_PIN_VALUE ->
         IF e.currentPinValueCallback # NULL
         THEN Invoke(e, "pinValue", e.currentPinValueCallback, << d1, d0 >>)
         ELSE e
    [] c = REPORT_ANALOG ->
         IF e.currentReportAnalogCallback # NULL
         THEN Invoke(e, "reportAnalog", e.currentReportAnalogCallback,
                     << e.multiByteChannel, d0 >>)
         ELSE e
    [] c = REPORT_DIGITAL ->
         IF e.currentReportDigitalCallback # NULL
         THEN Invoke(e, "reportDigital", e.currentReportDigitalCallback,
                     << e.multiByteChannel, d0 >>)
         ELSE e
    [] OTHER -> e

\* else if ((waitForData > 0) && (inputData < 128)) { ... }
parseData(e, inputData) ==
  LET w == [e EXCEPT !.waitForData = @ - 1]
      s == StoreInputData(w, w.waitForData, inputData)
  IN IF s.waitForData = 0 /\ s.executeMultiByteCommand # 0
     THEN [executeCommand(s) EXCEPT !.executeMultiByteCommand = 0]
     ELSE s

\* case START_SYSEX of the command switch
startSysexMessage(e) == [e EXCEPT !.parsingSysex = TRUE, !.sysexBytesRead = 0]

\* The command switch with a default case that awaits a data byte.
parseCommandAwaitsAfterUnknown(e, inputData) ==
  LET command == IF inputData < 240 THEN (inputData \div 16) * 16 ELSE inputData
      c == IF inputData < 240
           THEN [e EXCEPT !.multiByteChannel = inputData % 16]
           ELSE e
  IN
  CASE command \in { ANALOG_MESSAGE, DIGITAL_MESSAGE, SET_PIN_MODE,
                     SET_DIGITAL_PIN_VALUE } ->
         [c EXCEPT !.waitForData = 2, !.executeMultiByteCommand = command]
    [] command \in { REPORT_ANALOG, REPORT_DIGITAL } ->
         [c EXCEPT !.waitForData = 1, !.executeMultiByteCommand = command]
    [] command = START_SYSEX -> startSysexMessage(c)
    [] command = SYSTEM_RESET -> systemReset(c)
    [] command = REPORT_VERSION -> printVersion(c)
    [] OTHER -> [c EXCEPT !.waitForData = 1]

\* The command switch with two data bytes awaited for a report toggle.
parseCommandReportAwaitsTwo(e, inputData) ==
  LET command == IF inputData < 240 THEN (inputData \div 16) * 16 ELSE inputData
      c == IF inputData < 240
           THEN [e EXCEPT !.multiByteChannel = inputData % 16]
           ELSE e
  IN
  CASE command \in { ANALOG_MESSAGE, DIGITAL_MESSAGE, SET_PIN_MODE,
                     SET_DIGITAL_PIN_VALUE } ->
         [c EXCEPT !.waitForData = 2, !.executeMultiByteCommand = command]
    [] command \in { REPORT_ANALOG, REPORT_DIGITAL } ->
         [c EXCEPT !.waitForData = 2, !.executeMultiByteCommand = command]
    [] command = START_SYSEX -> startSysexMessage(c)
    [] command = SYSTEM_RESET -> systemReset(c)
    [] command = REPORT_VERSION -> printVersion(c)
    [] OTHER -> c

\* else { ... switch (command) { ... } }
parseCommand(e, inputData) ==
  LET command == IF inputData < 240 THEN (inputData \div 16) * 16 ELSE inputData
      c == IF inputData < 240
           THEN [e EXCEPT !.multiByteChannel = inputData % 16]
           ELSE e
  IN
  CASE command \in { ANALOG_MESSAGE, DIGITAL_MESSAGE, SET_PIN_MODE,
                     SET_DIGITAL_PIN_VALUE } ->
         [c EXCEPT !.waitForData = 2, !.executeMultiByteCommand = command]
    [] command \in { REPORT_ANALOG, REPORT_DIGITAL } ->
         [c EXCEPT !.waitForData = 1, !.executeMultiByteCommand = command]
    [] command = START_SYSEX -> startSysexMessage(c)
    [] command = SYSTEM_RESET -> systemReset(c)
    [] command = REPORT_VERSION -> printVersion(c)
    [] OTHER -> c

\* parse() answering a version query before it looks at the sysex state.
parseVersionBeforeSysex(e, inputData) ==
  IF inputData = SYSTEM_RESET THEN parseSystemReset(e)
  ELSE IF inputData = REPORT_VERSION THEN printVersion(e)
  ELSE IF e.parsingSysex THEN parseSysex(e, inputData)
  ELSE IF e.waitForData > 0 /\ inputData < 128 THEN parseData(e, inputData)
  ELSE parseCommand(e, inputData)

\* parse() without the branch that puts SYSTEM_RESET before everything else.
parseResetAsCommand(e, inputData) ==
  IF e.parsingSysex THEN parseSysex(e, inputData)
  ELSE IF e.waitForData > 0 /\ inputData < 128 THEN parseData(e, inputData)
  ELSE parseCommand(e, inputData)

\* parse(byte inputData)
parse(e, inputData) ==
  IF inputData = SYSTEM_RESET THEN parseSystemReset(e)
  ELSE IF e.parsingSysex THEN parseSysex(e, inputData)
  ELSE IF e.waitForData > 0 /\ inputData < 128 THEN parseData(e, inputData)
  ELSE parseCommand(e, inputData)

isParsingMessage == waitForData > 0 \/ parsingSysex

RECURSIVE parseAll(_, _, _, _)
\* while (writeCachePos > readCachePos) parse(readCache[readCachePos++]),
\* readCache[k] of the source being bytes[k + 1] here; the loop over
\* readCachePos..writeCachePos-1 is the loop over the first half of the range
\* followed by the loop over the second half; nothing is modelled of what
\* follows an access outside an array.
parseAll(e, bytes, readCachePos, writeCachePos) ==
  IF readCachePos >= writeCachePos THEN e
  ELSE IF readCachePos + 1 = writeCachePos THEN parse(e, bytes[readCachePos + 1])
  ELSE LET mid == (readCachePos + writeCachePos) \div 2
           firstHalf == parseAll(e, bytes, readCachePos, mid)
       IN IF firstHalf.bufferOverrun \/ firstHalf.pinOverrun THEN firstHalf
          ELSE parseAll(firstHalf, bytes, mid, writeCachePos)

RECURSIVE copyWords(_, _, _)
\* while (parsingSysex && writeCachePos > readCachePos + 4) { ... } of
\* processInput(); readCache[k] of the source is readCache[k + 1] here.
copyWords(e, readCache, readCachePos) ==
  IF e.parsingSysex /\ Len(readCache) > readCachePos + 4
  THEN IF \E k \in 1..4 : readCache[readCachePos + k] >= 128
       THEN [engine |-> e, readCachePos |-> readCachePos]
       ELSE LET a == StoreInputData(e, e.sysexBytesRead, readCache[readCachePos + 1])
                b == StoreInputData(a, e.sysexBytesRead + 1, readCache[readCachePos + 2])
                c == StoreInputData(b, e.sysexBytesRead + 2, readCache[readCachePos + 3])
                d == StoreInputData(c, e.sysexBytesRead + 3, readCache[readCachePos + 4])
            IN copyWords([d EXCEPT !.sysexBytesRead = @ + 4], readCache,
                         readCachePos + 4)
  ELSE [engine |-> e, readCachePos |-> readCachePos]

\* processInput() under LARGE_MEM_DEVICE, readCache holding the bytes read
processInput(e, readCache) ==
  LET w == copyWords(e, readCache, 0)
  IN parseAll(w.engine, readCache, w.readCachePos, Len(readCache))

(***************************************************************************)
(* Initial state: the global instance, zero-initialised and constructed.   *)
(***************************************************************************)
Init ==
  /\ LARGE_MEM_DEVICE \in BOOLEAN
  /\ waitForData = 0
  /\ executeMultiByteCommand = 0
  /\ multiByteChannel = 0
  /\ storedInputData = [i \in 0..(MAX_DATA_BYTES - 1) |-> 0]
  /\ parsingSysex = FALSE
  /\ sysexBytesRead = 0
  /\ pinConfig = [p \in 0..(TOTAL_PINS - 1) |-> 0]
  /\ pinState = [p \in 0..(TOTAL_PINS - 1) |-> 0]
  /\ firmwareVersionName = << >>
  /\ firmwareVersionMajor = 0
  /\ firmwareVersionMinor = 0
  /\ currentDigitalCallback = NULL
  /\ currentReportAnalogCallback = NULL
  /\ currentReportDigitalCallback = NULL
  /\ currentPinModeCallback = NULL
  /\ currentPinValueCallback = NULL
  /\ currentSystemResetCallback = NULL
  /\ currentStringCallback = NULL
  /\ currentSysexCallback = NULL
  /\ calls = << >>
  /\ out = << >>
  /\ bufferOverrun = FALSE
  /\ pinOverrun = FALSE
  /\ lastOp = [op |-> "construct", args |-> << >>]
  /\ pre = [parsingSysex |-> FALSE, waitForData |-> 0, sysexBytesRead |-> 0]
  /\ reference = << >>

\* No access outside an array has happened: the engine's memory is intact.
Intact == ~bufferOverrun /\ ~pinOverrun

(***************************************************************************)
(* The byte-at-a-time parser specification.                                *)
(***************************************************************************)
\* Data bytes the host varies.
DataBytes == { 0, 1 }

\* Data byte fed to positions of a sysex payload past MaxPrefix: the least.
Filler == CHOOSE b \in DataBytes : \A c \in DataBytes : b <= c

\* Bytes the host sends in the parser specification: the reset, sysex
\* framing, a version query, a two-byte, a repacked and a one-byte
\* fixed-length command on channel 1, an unrecognised status byte (channel 5)
\* and the data bytes.
ParserBytes ==
  { SYSTEM_RESET, START_SYSEX, END_SYSEX, REPORT_VERSION,
    DIGITAL_MESSAGE + 1, ANALOG_MESSAGE + 1, REPORT_ANALOG + 1,
    133, STRING_DATA } \cup DataBytes


\* Inside a sysex message the host sends data bytes and the two bytes that
\* end it; STRING_DATA is sent as a sub-command only; past the prefix the
\* host sends the filler, in runs of RunLength bytes while one fits in the
\* buffer and byte by byte after that.
Admitted(inputData) ==
  /\ inputData = STRING_DATA => (parsingSysex /\ sysexBytesRead = 0)
  /\ (parsingSysex /\ inputData \notin { END_SYSEX, SYSTEM_RESET })
       => /\ inputData < 128
          /\ sysexBytesRead >= MaxPrefix
               => (inputData = Filler /\ sysexBytesRead + RunLength >= MAX_DATA_BYTES)

\* parse(inputData), as processInput() calls it without LARGE_MEM_DEVICE
Parse(inputData) ==
  /\ Intact
  /\ Admitted(inputData)
  /\ Become(parse(Entry, inputData))
  /\ lastOp' = [op |-> "parse", args |-> << inputData >>]
  /\ pre' = Snapshot
  /\ UNCHANGED reference

ParseByte == \E inputData \in ParserBytes : Parse(inputData)

\* RunLength filler bytes of a long sysex payload, each through parse()
ParseRun ==
  /\ Intact
  /\ parsingSysex
  /\ sysexBytesRead + RunLength < MAX_DATA_BYTES
  /\ Become(parseAll(Entry, [k \in 1..RunLength |-> Filler], 0, RunLength))
  /\ lastOp' = [op |-> "parseRun", args |-> << RunLength >>]
  /\ pre' = Snapshot
  /\ UNCHANGED reference

\* resetParser(), called by the sketch
ResetParser ==
  /\ Intact
  /\ Become(resetParser(Entry))
  /\ lastOp' = [op |-> "resetParser", args |-> << >>]
  /\ pre' = Snapshot
  /\ UNCHANGED reference

\* setup() of a sketch that registers handlers, before any input is polled
Setup ==
  /\ lastOp.op = "construct"
  /\ Become(attachAll(Entry, 1))
  /\ lastOp' = [op |-> "setup", args |-> << >>]
  /\ pre' = Snapshot
  /\ UNCHANGED reference

Next == Setup \/ ParseByte \/ ParseRun \/ ResetParser

Spec == Init /\ [][Next]_vars

(***************************************************************************)
(* The pin table specification: the sketch's calls and the host's          *)
(* SET_PIN_MODE messages and resets.                                       *)
(***************************************************************************)
\* Modes the sketch and the host ask for.
PinModes == { 0, 1, PIN_MODE_IGNORE }

\* Bytes the host sends in the pin table specification; the data bytes name
\* pins 0 and 1 and a pin the board does not have, and the modes.
PinBytes == { SYSTEM_RESET, SET_PIN_MODE, 0, 1, PIN_MODE_IGNORE }

ParsePinByte == \E inputData \in PinBytes : Parse(inputData)

\* setPinMode(pin, config), called by the sketch on a pin of the board
SetPinMode ==
  \E pin \in 0..(TOTAL_PINS - 1), config \in PinModes :
    /\ Intact
    /\ Become(setPinMode(Entry, pin, config))
    /\ lastOp' = [op |-> "setPinMode", args |-> << pin, config >>]
    /\ pre' = Snapshot
    /\ UNCHANGED reference

\* setPinState(pin, state), called by the sketch on a pin of the board
SetPinState ==
  \E pin \in 0..(TOTAL_PINS - 1), state \in { 0, 1 } :
    /\ Intact
    /\ Become(setPinState(Entry, pin, state))
    /\ lastOp' = [op |-> "setPinState", args |-> << pin, state >>]
    /\ pre' = Snapshot
    /\ UNCHANGED reference

NextPins == Setup \/ ParsePinByte \/ SetPinMode \/ SetPinState

SpecPins == Init /\ [][NextPins]_vars

(***************************************************************************)
(* The block-mode specification: processInput() under LARGE_MEM_DEVICE,    *)
(* each block also fed byte by byte to a copy of the engine.               *)
(***************************************************************************)
Fillers(k) == [i \in 1..k |-> Filler]

\* A block of distinct data bytes.
Mixed == [i \in 1..MaxBlock |-> i]

\* The blocks readBytes() returns: a framing byte alone, data bytes, data
\* bytes followed by END_SYSEX, a long run of data bytes.
Blocks ==
  { << START_SYSEX >>, << END_SYSEX >>, << SYSTEM_RESET >>, Mixed,
    Fillers(RunLength) }
    \cup { Fillers(k) : k \in 1..MaxBlock }
    \cup { Fillers(k) \o << END_SYSEX >> : k \in 1..(MaxBlock - 1) }

\* The host starts a sysex message outside one, and varies the first block
\* of a payload only.
AdmittedBlock(block) ==
  /\ block = << START_SYSEX >> => ~parsingSysex
  /\ block = Mixed => (parsingSysex /\ sysexBytesRead = 0)

ProcessInput ==
  \E block \in Blocks :
    /\ Intact
    /\ AdmittedBlock(block)
    /\ Become(processInput(Entry, block))
    /\ reference' = parseAll(Entry, block, 0, Len(block))
    /\ lastOp' = [op |-> "processInput", args |-> << Len(block) >>]
    /\ pre' = Snapshot

InitBlock == Init /\ LARGE_MEM_DEVICE

NextBlock == Setup \/ ProcessInput

SpecBlock == InitBlock /\ [][NextBlock]_vars

(***************************************************************************)
(* The sysex message specification: the host sends whole sysex messages,   *)
(* each parsed byte by byte, resets, and now and then a fixed-length       *)
(* message that it does not finish.                                        *)
(***************************************************************************)
\* Payload bytes of the sysex messages: zero and 'i', which as the high half
\* of a character does not fit a byte once shifted.
SysexData == { 0, 105 }

\* The string message "Hi".
HiMessage == << START_SYSEX, STRING_DATA, 72, 0, 105, 0, END_SYSEX >>

\* Sub-commands of the sysex messages: a string, and one the engine does not
\* handle itself.
SubCommands == { STRING_DATA, 1 }

SysexMessages ==
  UNION { { << START_SYSEX, sub >> \o payload \o << END_SYSEX >> :
              sub \in SubCommands, payload \in [1..n -> SysexData] } :
          n \in 0..MaxPayload }

\* A reset, a digital-write message the host does not finish, and "Hi".
OtherMessages == { << SYSTEM_RESET >>, << DIGITAL_MESSAGE + 1 >>, HiMessage }

\* One whole message through parse(), byte by byte
ParseMessage(message) ==
  /\ Intact
  /\ Become(parseAll(Entry, message, 0, Len(message)))
  /\ lastOp' = [op |-> "message", args |-> message]
  /\ pre' = Snapshot
  /\ UNCHANGED reference

ParseSysexMessage ==
  \E message \in SysexMessages \cup OtherMessages : ParseMessage(message)

InitSysex == Init /\ ~LARGE_MEM_DEVICE

NextSysex == Setup \/ ParseSysexMessage

SpecSysex == InitSysex /\ [][NextSysex]_vars

(***************************************************************************)
(* The fixed-length message specification: the host sends whole            *)
(* fixed-length messages and resets.                                       *)
(***************************************************************************)
\* Data bytes of the fixed-length messages: two pins of the board, and the
\* largest data byte (also PIN_MODE_IGNORE, and no pin of the board).
FixedData == { 0, 1, 127 }

FixedMessages ==
  { << command, a, b >> :
      command \in { DIGITAL_MESSAGE + 1, ANALOG_MESSAGE + 2, ANALOG_MESSAGE,
                    SET_PIN_MODE, SET_DIGITAL_PIN_VALUE },
      a \in FixedData, b \in FixedData }
    \cup { << command, a >> :
             command \in { REPORT_ANALOG + 3, REPORT_DIGITAL + 4 },
             a \in FixedData }

ParseFixedMessage ==
  \E message \in FixedMessages \cup { << SYSTEM_RESET >> } : ParseMessage(message)

InitFixed == Init /\ ~LARGE_MEM_DEVICE

NextFixed == Setup \/ ParseFixedMessage

SpecFixed == InitFixed /\ [][NextFixed]_vars

(***************************************************************************)
(* The byte-at-a-time specification of the fixed-length messages.          *)
(***************************************************************************)
\* Bytes the host sends: the six fixed-length commands, each on a channel of
\* its own where it has one, the reset, and data bytes naming pins and modes.
FixedBytes ==
  { DIGITAL_MESSAGE + 1, ANALOG_MESSAGE + 2, SET_PIN_MODE,
    SET_DIGITAL_PIN_VALUE, REPORT_ANALOG + 3, REPORT_DIGITAL + 4,
    SYSTEM_RESET, 0, 1, PIN_MODE_IGNORE }

ParseFixedByte == \E inputData \in FixedBytes : Parse(inputData)

NextFixedBytes == Setup \/ ParseFixedByte

SpecFixedBytes == InitFixed /\ [][NextFixedBytes]_vars

(***************************************************************************)
(* The registry specification: the sketch attaches and detaches handlers   *)
(* at any time, and the host sends a message of every kind.                *)
(***************************************************************************)
\* The commands that name the callback categories.
Categories ==
  { DIGITAL_MESSAGE, REPORT_ANALOG, REPORT_DIGITAL, SET_PIN_MODE,
    SET_DIGITAL_PIN_VALUE, SYSTEM_RESET, STRING_DATA, START_SYSEX }

\* Two handlers of each type.
Handlers == { 1, 2 }

\* attach(command, newFunction): the overload the handler's type selects
attach(e, command, newFunction) ==
  CASE command = SYSTEM_RESET -> attachSystemReset(e, command, newFunction)
    [] command = STRING_DATA -> attachString(e, command, newFunction)
    [] command = START_SYSEX -> attachSysex(e, command, newFunction)
    [] OTHER -> attachCallback(e, command, newFunction)

\* One message for every category: the fixed-length messages with zero data,
\* a reset, the string "i", and an analog write for the sysex handler.
RegistryMessages ==
  { << DIGITAL_MESSAGE, 0, 0 >>, << REPORT_ANALOG, 0 >>, << REPORT_DIGITAL, 0 >>,
    << SET_PIN_MODE, 0, 0 >>, << SET_DIGITAL_PIN_VALUE, 0, 0 >>,
    << SYSTEM_RESET >>, << START_SYSEX, STRING_DATA, 105, 0, END_SYSEX >>,
    << ANALOG_MESSAGE, 0, 0 >> }

\* The handler in the slot of a category.
Slot(command) ==
  CASE command = DIGITAL_MESSAGE -> currentDigitalCallback
    [] command = REPORT_ANALOG -> currentReportAnalogCallback
    [] command = REPORT_DIGITAL -> currentReportDigitalCallback
    [] command = SET_PIN_MODE -> currentPinModeCallback
    [] command = SET_DIGITAL_PIN_VALUE -> currentPinValueCallback
    [] command = SYSTEM_RESET -> currentSystemResetCallback
    [] command = STRING_DATA -> currentStringCallback
    [] command = START_SYSEX -> currentSysexCallback

\* The sketch keeps at most MaxAttached categories attached at a time.
Attach ==
  \E command \in Categories, newFunction \in Handlers :
    /\ Intact
    /\ Cardinality({ c \in Categories : c = command \/ Slot(c) # NULL })
         <= MaxAttached
    /\ Become(attach(Entry, command, newFunction))
    /\ lastOp' = [op |-> "attach", args |-> << command, newFunction >>]
    /\ pre' = Snapshot
    /\ UNCHANGED reference

Detach ==
  \E command \in Categories :
    /\ Intact
    /\ Become(detach(Entry, command))
    /\ lastOp' = [op |-> "detach", args |-> << command >>]
    /\ pre' = Snapshot
    /\ UNCHANGED reference

ParseRegistryMessage == \E message \in RegistryMessages : ParseMessage(message)

NextRegistry == Attach \/ Detach \/ ParseRegistryMessage

SpecRegistry == InitFixed /\ [][NextRegistry]_vars

(***************************************************************************)
(* The packed-integer specification: a value is sent packed and the bytes  *)
(* written are decoded again, as the host's echo of them would be.         *)
(***************************************************************************)
\* The unsigned values of the given width with at most two bits set, and
\* those with at most two bits clear.
SparseValues(width) ==
  LET sparse == { [i \in 0..(width - 1) |-> IF i \in { a, b } THEN 1 ELSE 0] :
                    a \in 0..width, b \in 0..width }
  IN sparse \cup { [i \in 0..(width - 1) |-> 1 - v[i]] : v \in sparse }

\* Every uint16_t in [0, 16383].
UInt14Values == { ToBits(n, 16) : n \in 0..16383 }

\* The sketch has a value to send: one of the test values of a width.
Argument ==
  \E value \in SparseValues(32) \cup SparseValues(64) \cup UInt14Values :
    /\ lastOp.op = "construct"
    /\ lastOp' = [op |-> "argument", args |-> << value >>]
    /\ UNCHANGED << LARGE_MEM_DEVICE, waitForData, executeMultiByteCommand,
                    multiByteChannel, storedInputData, parsingSysex,
                    sysexBytesRead, pinConfig, pinState, firmwareVersionName,
                    firmwareVersionMajor, firmwareVersionMinor,
                    currentDigitalCallback, currentReportAnalogCallback,
                    currentReportDigitalCallback, currentPinModeCallback,
                    currentPinValueCallback, currentSystemResetCallback,
                    currentStringCallback, currentSysexCallback, calls, out,
                    bufferOverrun, pinOverrun, pre, reference >>

\* sendPackedUInt32(value), and decodePackedUInt32() of the bytes written
RoundTripUInt32 ==
  /\ lastOp.op = "argument"
  /\ DOMAIN lastOp.args[1] = 0..31
  /\ LET value == lastOp.args[1]
         sent == sendPackedUInt32(Entry, value)
     IN /\ Become(sent)
        /\ lastOp' = [op |-> "sendPackedUInt32",
                      args |-> << value, decodePackedUInt32(sent.out) >>]
  /\ pre' = Snapshot
  /\ UNCHANGED reference

\* sendPackedUInt64(value), and decodePackedUInt64() of the bytes written
RoundTripUInt64 ==
  /\ lastOp.op = "argument"
  /\ DOMAIN lastOp.args[1] = 0..63
  /\ LET value == lastOp.args[1]
         sent == sendPackedUInt64(Entry, value)
     IN /\ Become(sent)
        /\ lastOp' = [op |-> "sendPackedUInt64",
                      args |-> << value, decodePackedUInt64(sent.out) >>]
  /\ pre' = Snapshot
  /\ UNCHANGED reference

\* sendPackedUInt14(value), and decodePackedUInt14() of the bytes written
RoundTripUInt14 ==
  /\ lastOp.op = "argument"
  /\ DOMAIN lastOp.args[1] = 0..15
  /\ LET value == lastOp.args[1]
         sent == sendPackedUInt14(Entry, value)
     IN /\ Become(sent)
        /\ lastOp' = [op |-> "sendPackedUInt14",
                      args |-> << value, decodePackedUInt14(sent.out) >>]
  /\ pre' = Snapshot
  /\ UNCHANGED reference

InitCodec == Init /\ ~LARGE_MEM_DEVICE

NextCodec == Argument \/ RoundTripUInt32 \/ RoundTripUInt64 \/ RoundTripUInt14

SpecCodec == InitCodec /\ [][NextCodec]_vars

(***************************************************************************)
(* The status byte specification: the host sends commands, data, now and   *)
(* then a status byte that is no command of the protocol, and a version    *)
(* query at any point, also inside a sysex payload.                        *)
(***************************************************************************)
\* The commands the host sends: a two-byte, a repacked and a one-byte
\* fixed-length command, each on a channel of its own, sysex framing, the
\* version query and the reset.
StatusCommands ==
  { DIGITAL_MESSAGE + 1, ANALOG_MESSAGE + 2, REPORT_ANALOG + 3, START_SYSEX,
    END_SYSEX, REPORT_VERSION, SYSTEM_RESET }

\* The bytes of the status byte specification: the commands, the data bytes,
\* and an unrecognised status byte of either range.
StatusBytes == StatusCommands \cup DataBytes \cup { 133, 160 }

\* Inside a sysex message the host sends up to MaxPrefix data bytes or
\* version queries, a version query as the byte that fills the buffer, and
\* the two bytes that end the message.
AdmittedStatus(inputData) ==
  parsingSysex =>
    \/ inputData \in { END_SYSEX, SYSTEM_RESET }
    \/ /\ inputData \in DataBytes \cup { REPORT_VERSION }
       /\ sysexBytesRead < MaxPrefix
    \/ /\ inputData = REPORT_VERSION
       /\ sysexBytesRead = MAX_DATA_BYTES - 1

\* parse(inputData), as processInput() calls it without LARGE_MEM_DEVICE
ParseStatusByte ==
  \E inputData \in StatusBytes :
    /\ Intact
    /\ AdmittedStatus(inputData)
    /\ Become(parse(Entry, inputData))
    /\ lastOp' = [op |-> "parse", args |-> << inputData >>]
    /\ pre' = Snapshot
    /\ UNCHANGED reference

\* The filler bytes of a sysex payload that leave room for one more byte,
\* each through parse()
FillPayload ==
  /\ Intact
  /\ parsingSysex
  /\ sysexBytesRead < MAX_DATA_BYTES - 1
  /\ LET n == MAX_DATA_BYTES - 1 - sysexBytesRead IN
     /\ Become(parseAll(Entry, [k \in 1..n |-> Filler], 0, n))
     /\ lastOp' = [op |-> "parseRun", args |-> << n >>]
  /\ pre' = Snapshot
  /\ UNCHANGED reference

InitStatus == Init /\ ~LARGE_MEM_DEVICE

NextStatus == Setup \/ ParseStatusByte \/ FillPayload

SpecStatus == InitStatus /\ [][NextStatus]_vars

(***************************************************************************)
(* The stray byte specification: between messages the host sends any byte  *)
(* that is no command of the protocol.                                     *)
(***************************************************************************)
\* The bytes that are no command when received in Idle: the data bytes, the
\* status bytes 0x80..0x8F and 0xA0..0xBF, and 0xF1..0xF3, 0xF6..0xF8 and
\* 0xFA..0xFE.
UnrecognisedBytes ==
  (0..127) \cup (128..143) \cup (160..191) \cup (241..243) \cup (246..248)
    \cup (250..254)

\* The commands of the stray byte specification: a two-byte and a one-byte
\* fixed-length command, sysex framing and the reset.
StrayCommands ==
  { DIGITAL_MESSAGE + 1, REPORT_ANALOG + 3, START_SYSEX, END_SYSEX,
    SYSTEM_RESET }

\* In Idle the host sends any command or unrecognised byte; while a message
\* is in progress, a command or a data byte, and inside a sysex message no
\* more than MaxPrefix data bytes.
AdmittedStray(inputData) ==
  IF parsingSysex
  THEN \/ inputData \in { END_SYSEX, SYSTEM_RESET }
       \/ inputData \in DataBytes /\ sysexBytesRead < MaxPrefix
  ELSE waitForData > 0 => inputData \in StrayCommands \cup DataBytes

\* parse(inputData), as processInput() calls it without LARGE_MEM_DEVICE
ParseStrayByte ==
  \E inputData \in StrayCommands \cup UnrecognisedBytes :
    /\ Intact
    /\ AdmittedStray(inputData)
    /\ Become(parse(Entry, inputData))
    /\ lastOp' = [op |-> "parse", args |-> << inputData >>]
    /\ pre' = Snapshot
    /\ UNCHANGED reference

InitStray == Init /\ ~LARGE_MEM_DEVICE

NextStray == Setup \/ ParseStrayByte

SpecStray == InitStray /\ [][NextStray]_vars

(***************************************************************************)
(* The analog write specification: the host writes analog values in the    *)
(* fixed form and in the extended form, as whole messages.                 *)
(***************************************************************************)
\* The analog channels of the fixed form, and the 7-bit halves of a value.
AnalogChannels == 0..15

AnalogData == { 0, 127 }

\* [0xE0 | p, lo, hi]
FixedAnalog(p, lo, hi) == << ANALOG_MESSAGE + p, lo, hi >>

\* [0xF0, 0x6F, p, lo, hi, 0xF7]
ExtendedAnalog(p, lo, hi) ==
  << START_SYSEX, EXTENDED_ANALOG, p, lo, hi, END_SYSEX >>

AnalogMessages ==
  { FixedAnalog(p, lo, hi) :
      p \in AnalogChannels, lo \in AnalogData, hi \in AnalogData }
    \cup { ExtendedAnalog(p, lo, hi) :
             p \in AnalogChannels, lo \in AnalogData, hi \in AnalogData }

\* An analog write in either form, a reset, or a digital write that the host
\* does not finish.
ParseAnalogMessage ==
  \E message \in AnalogMessages
                  \cup { << SYSTEM_RESET >>, << DIGITAL_MESSAGE + 1 >> } :
    ParseMessage(message)

InitAnalog == Init /\ ~LARGE_MEM_DEVICE

NextAnalog == Setup \/ ParseAnalogMessage

SpecAnalog == InitAnalog /\ [][NextAnalog]_vars

(***************************************************************************)
(* The twin specification: two engines are fed the same bytes; the first   *)
(* has a handler in every category, the second, held in reference, in      *)
(* every category but one.                                                 *)
(***************************************************************************)
\* Bytes the host sends to the twins: the reset, sysex framing, the string
\* sub-command, a digital write, an analog write and a report toggle on
\* channel 1, a pin mode, and the data bytes.
TwinBytes ==
  { SYSTEM_RESET, START_SYSEX, END_SYSEX, STRING_DATA, DIGITAL_MESSAGE + 1,
    ANALOG_MESSAGE + 1, REPORT_ANALOG + 1, SET_PIN_MODE } \cup DataBytes

\* Inside a sysex message the host sends a sub-command, STRING_DATA or a data
\* byte, then at most MaxPrefix data bytes, and the two bytes that end it.
AdmittedTwin(inputData) ==
  /\ inputData = STRING_DATA => (parsingSysex /\ sysexBytesRead = 0)
  /\ (parsingSysex /\ inputData \notin { END_SYSEX, SYSTEM_RESET })
       => /\ inputData < 128
          /\ sysexBytesRead <= MaxPrefix

\* setup() of the two sketches: both attach a handler to every category, the
\* second detaches one again
SetupTwins ==
  \E command \in Categories :
    /\ lastOp.op = "construct"
    /\ Become(attachAll(Entry, 1))
    /\ reference' = detach(attachAll(Entry, 1), command)
    /\ lastOp' = [op |-> "setup", args |-> << command >>]
    /\ pre' = Snapshot

\* parse(inputData) by both engines
ParseTwins ==
  \E inputData \in TwinBytes :
    /\ Intact
    /\ lastOp.op # "construct"
    /\ AdmittedTwin(inputData)
    /\ Become(parse(Entry, inputData))
    /\ reference' =
         parse([reference EXCEPT !.calls = << >>, !.out = << >>], inputData)
    /\ lastOp' = [op |-> "parse", args |-> << inputData >>]
    /\ pre' = Snapshot

InitTwins == Init /\ ~LARGE_MEM_DEVICE

NextTwins == SetupTwins \/ ParseTwins

SpecTwins == InitTwins /\ [][NextTwins]_vars

(***************************************************************************)
(* The interleaved message specification: the host sends whole             *)
(* fixed-length messages, some with a status byte that is no command       *)
(* between the command byte and the last data byte.                        *)
(***************************************************************************)
\* Status bytes without a case in the command switch: one of 0x80..0x8F and
\* the two ends of 0xA0..0xBF.
StrayStatus == { 133, 160, 191 }

\* The commands with a channel: two data bytes follow a digital and an
\* analog write, one a report toggle.
ChannelWrites == { DIGITAL_MESSAGE + 1, ANALOG_MESSAGE + 2 }

ChannelReports == { REPORT_ANALOG + 3, REPORT_DIGITAL + 4 }

InterleavedMessages ==
  { << command, a, b >> :
      command \in ChannelWrites, a \in DataBytes, b \in DataBytes }
    \cup { << command, stray, a, b >> :
             command \in ChannelWrites, stray \in StrayStatus,
             a \in DataBytes, b \in DataBytes }
    \cup { << command, a, stray, b >> :
             command \in ChannelWrites, stray \in StrayStatus,
             a \in DataBytes, b \in DataBytes }
    \cup { << command, a >> : command \in ChannelReports, a \in DataBytes }
    \cup { << command, stray, a >> :
             command \in ChannelReports, stray \in StrayStatus,
             a \in DataBytes }

ParseInterleavedMessage ==
  \E message \in InterleavedMessages \cup { << SYSTEM_RESET >> } :
    ParseMessage(message)

InitInterleaved == Init /\ ~LARGE_MEM_DEVICE

NextInterleaved == Setup \/ ParseInterleavedMessage

SpecInterleaved == InitInterleaved /\ [][NextInterleaved]_vars

(***************************************************************************)
(* The interrupted message specification: the host starts a fixed-length   *)
(* message, leaves it unfinished, sends another whole message, and then    *)
(* some data bytes.                                                        *)
(***************************************************************************)
\* The unfinished messages: a digital write without data or with its first
\* data byte, and a report toggle without its data byte.
UnfinishedMessages ==
  { << DIGITAL_MESSAGE + 1 >>, << REPORT_ANALOG + 3 >> }
    \cup { << DIGITAL_MESSAGE + 1, a >> : a \in DataBytes }

\* The whole messages that interrupt them: a pin value, a report toggle of
\* the other kind, and a sysex message with a sub-command the engine does
\* not handle itself.
InterruptingFixed ==
  { << SET_DIGITAL_PIN_VALUE, a, b >> : a \in DataBytes, b \in DataBytes }
    \cup { << REPORT_DIGITAL + 4, a >> : a \in DataBytes }

InterruptingSysex ==
  { << START_SYSEX, 1, a, END_SYSEX >> : a \in DataBytes }

\* The data bytes that follow the interrupting message.
TrailingData ==
  { << >> } \cup { << a >> : a \in DataBytes }
    \cup { << a, b >> : a \in DataBytes, b \in DataBytes }

InterruptedMessages ==
  { unfinished \o interrupting \o trailing :
      unfinished \in UnfinishedMessages,
      interrupting \in InterruptingFixed \cup InterruptingSysex,
      trailing \in TrailingData }

ParseInterruptedMessage ==
  \E message \in InterruptedMessages \cup { << SYSTEM_RESET >> } :
    ParseMessage(message)

InitInterrupted == Init /\ ~LARGE_MEM_DEVICE

NextInterrupted == Setup \/ ParseInterruptedMessage

SpecInterrupted == InitInterrupted /\ [][NextInterrupted]_vars

(***************************************************************************)
(* Properties of the parser.                                               *)
(***************************************************************************)
\* The last operation was parse(inputData).
Parsed(inputData) == lastOp = [op |-> "parse", args |-> << inputData >>]

\* The last operation was parse() of a byte that a collecting parser buffers.
ParsedPayloadByte ==
  /\ lastOp.op = "parse"
  /\ pre.parsingSysex
  /\ lastOp.args[1] \notin { END_SYSEX, SYSTEM_RESET }

\* The bytes sendString() writes for the overflow diagnostic.
DiagnosticMessage == sendString([out |-> << >>], DiscardingInputMessage).out

\* The invocation of a handler, as recorded.
Invocation(category, handler, args) ==
  [cb |-> category, fn |-> handler, args |-> args]

\* C1: whatever the parser was assembling, parse(0xFF) leaves every parser
\* field as the constructor left it (not parsing, waitForData,
\* executeMultiByteCommand, multiByteChannel and sysexBytesRead 0, the buffer
\* all zero), invokes the registered system-reset handler exactly once and
\* nothing else, and writes nothing: no part of the interrupted message is
\* left for a later byte to dispatch.
C1_ResetAlwaysReturnsToIdle ==
  Parsed(SYSTEM_RESET) =>
    /\ ~isParsingMessage
    /\ ~parsingSysex
    /\ waitForData = 0
    /\ executeMultiByteCommand = 0
    /\ multiByteChannel = 0
    /\ sysexBytesRead = 0
    /\ \A i \in 0..(MAX_DATA_BYTES - 1) : storedInputData[i] = 0
    /\ calls = IF currentSystemResetCallback # NULL
               THEN << Invocation("systemReset", currentSystemResetCallback, << >>) >>
               ELSE << >>
    /\ out = << >>

\* C1 witness: a reset parsed in the middle of a sysex message with buffered
\* bytes, the reset handler registered and invoked.
C1_Witness ==
  /\ Parsed(SYSTEM_RESET)
  /\ pre.parsingSysex
  /\ pre.sysexBytesRead >= 2
  /\ Len(calls) = 1

\* C2: fed byte by byte, the parser never accesses storedInputData outside
\* 0..MAX_DATA_BYTES-1, and sysexBytesRead is below MAX_DATA_BYTES whenever
\* parse() has returned.
C2_BufferNeverOverflows ==
  /\ ~bufferOverrun
  /\ sysexBytesRead \in 0..(MAX_DATA_BYTES - 1)

\* C2 witness: a payload byte was written to the last position of the buffer.
C2_Witness ==
  /\ ParsedPayloadByte
  /\ pre.sysexBytesRead = MAX_DATA_BYTES - 1
  /\ ~bufferOverrun

\* C3 (as claimed): the byte that brings a sysex payload to exactly
\* MAX_DATA_BYTES bytes is buffered like any other, so that END_SYSEX can
\* still dispatch the message: nothing is written and the parser goes on
\* collecting.
C3_FullPayloadCompletes ==
  (ParsedPayloadByte /\ pre.sysexBytesRead = MAX_DATA_BYTES - 1) =>
    /\ parsingSysex
    /\ sysexBytesRead = MAX_DATA_BYTES
    /\ out = << >>

\* The last parse() call took the overflow path.
Overflowed ==
  ParsedPayloadByte /\ pre.sysexBytesRead = MAX_DATA_BYTES - 1

\* C4: a payload byte that fills the buffer makes parse() write exactly one
\* diagnostic STRING_DATA sysex message, invoke no handler, and return with
\* the message discarded (sysexBytesRead = 0) and the parser Idle; the next
\* byte, whichever it is, is handled as a byte received in Idle.
C4_OverflowDiscardsAndResyncs ==
  Overflowed =>
    /\ out = DiagnosticMessage
    /\ out[1] = START_SYSEX /\ out[2] = STRING_DATA /\ out[Len(out)] = END_SYSEX
    /\ calls = << >>
    /\ sysexBytesRead = 0
    /\ ~isParsingMessage
    /\ \A b \in ParserBytes :
         parse(Entry, b) = IF b = SYSTEM_RESET THEN parseSystemReset(Entry)
                           ELSE parseCommand(Entry, b)

\* C4 witness: the overflow happened while a fixed-length command was also
\* pending, with handlers registered.
C4_Witness ==
  /\ Overflowed
  /\ pre.waitForData > 0
  /\ currentSysexCallback # NULL
  /\ out = DiagnosticMessage

\* The last parse() call completed or aborted a message.
MessageEnded ==
  /\ lastOp.op = "parse"
  /\ \/ lastOp.args[1] = SYSTEM_RESET
     \/ pre.parsingSysex /\ lastOp.args[1] = END_SYSEX
     \/ Overflowed
     \/ ~pre.parsingSysex /\ pre.waitForData = 1 /\ lastOp.args[1] < 128

\* C6 (as claimed): isParsingMessage() is true exactly when a fixed-length
\* message awaits data bytes or a sysex message is being collected, and it is
\* false when parse() has just completed or aborted a message.
C6_IdleAfterEveryMessage ==
  /\ isParsingMessage <=> (waitForData > 0 \/ parsingSysex)
  /\ MessageEnded => ~isParsingMessage

\* C7 (as claimed): the parser never collects sysex while it awaits the data
\* bytes of a fixed-length message.
C7_OneRegimeAtATime == ~(parsingSysex /\ waitForData > 0)

(***************************************************************************)
(* Properties of block mode.                                               *)
(***************************************************************************)
\* C5 (as claimed): a block processed by processInput() leaves the engine,
\* the handler invocations and the transport output exactly as parse() on
\* the same bytes one at a time leaves them (states in which block mode has
\* already written outside the buffer are left aside).
C5_ChunkingInvariance ==
  (lastOp.op = "processInput" /\ Intact) => reference = Engine

(***************************************************************************)
(* Properties of the pin table.                                            *)
(***************************************************************************)
\* The step is setPinMode(p, _), called by the sketch or by the last data
\* byte of a SET_PIN_MODE message.
SetsModeOf(p) ==
  \/ lastOp'.op = "setPinMode" /\ lastOp'.args[1] = p
  \/ /\ lastOp'.op = "parse"
     /\ lastOp'.args[1] < 128
     /\ ~parsingSysex
     /\ waitForData = 1
     /\ executeMultiByteCommand = SET_PIN_MODE
     /\ storedInputData[1] = p

\* C8: a pin whose mode is PIN_MODE_IGNORE keeps that mode over every
\* operation (setPinMode calls, SET_PIN_MODE messages, resets), and a
\* setPinMode on it changes neither its mode nor its state and invokes no
\* handler.
C8_IgnoreIsWriteOnce ==
  [][ \A p \in 0..(TOTAL_PINS - 1) :
        pinConfig[p] = PIN_MODE_IGNORE =>
          /\ pinConfig'[p] = PIN_MODE_IGNORE
          /\ SetsModeOf(p) => (pinState'[p] = pinState[p] /\ calls' = << >>) ]_vars

\* C8 witness: setPinMode asked for another mode on an ignored pin that holds
\* a state, with a pin-mode handler registered, and nothing changed.
C8_Witness ==
  /\ lastOp.op = "setPinMode"
  /\ lastOp.args[2] # PIN_MODE_IGNORE
  /\ pinConfig[lastOp.args[1]] = PIN_MODE_IGNORE
  /\ pinState[lastOp.args[1]] # 0
  /\ currentPinModeCallback # NULL
  /\ calls = << >>

C10_ResetKeepsPinModes ==
  [][ lastOp' = [op |-> "parse", args |-> << SYSTEM_RESET >>]
        => pinConfig' = pinConfig ]_vars

\* C10 witness: a reset parsed while pins are configured, one of them ignored.
C10_Witness ==
  /\ Parsed(SYSTEM_RESET)
  /\ \E p, q \in 0..(TOTAL_PINS - 1) :
       pinConfig[p] = 1 /\ pinConfig[q] = PIN_MODE_IGNORE

(***************************************************************************)
(* Properties of the packed integers.                                      *)
(***************************************************************************)
\* Bit j of the byte b.
BitOf(b, j) == (b \div (2 ^ j)) % 2

\* C15: sendPackedUInt32(v) writes exactly five bytes, each below 128, the
\* least significant 7-bit group first and the fifth byte holding bits 28..31
\* only, and decodePackedUInt32 of those five bytes is v.
C15_UInt32RoundTrip ==
  lastOp.op = "sendPackedUInt32" =>
    LET v == lastOp.args[1] IN
    /\ Len(out) = 5
    /\ \A k \in 1..5 : out[k] < 128
    /\ \A i \in 0..31 : BitOf(out[(i \div 7) + 1], i % 7) = v[i]
    /\ out[5] < 16
    /\ lastOp.args[2] = v

\* A value with bits 0 and 31 set has been sent and decoded.
C15_Witness ==
  /\ lastOp.op = "sendPackedUInt32"
  /\ lastOp.args[1][31] = 1 /\ lastOp.args[1][0] = 1 /\ lastOp.args[1][30] = 0
  /\ out[5] = 8

\* C16: sendPackedUInt64(v) writes exactly ten bytes, the five of the low
\* word's pack then the five of the high word's, and decodePackedUInt64 of
\* them is v; decodePackedUInt14 of the two bytes of sendPackedUInt14(v) is v
\* for every v in [0, 16383].
C16_UInt64AndUInt14RoundTrip ==
  /\ lastOp.op = "sendPackedUInt64" =>
       LET v == lastOp.args[1] IN
       /\ Len(out) = 10
       /\ \A k \in 1..10 : out[k] < 128
       /\ \A i \in 0..63 :
            BitOf(out[5 * (i \div 32) + ((i % 32) \div 7) + 1], (i % 32) % 7) = v[i]
       /\ lastOp.args[2] = v
  /\ lastOp.op = "sendPackedUInt14" =>
       /\ Len(out) = 2
       /\ lastOp.args[2] = lastOp.args[1]

\* A 64-bit value whose two words differ has been sent and decoded.
C16_Witness ==
  /\ lastOp.op = "sendPackedUInt64"
  /\ lastOp.args[1][63] = 1 /\ lastOp.args[1][31] = 0 /\ lastOp.args[1][0] = 1
  /\ out[10] = 8 /\ out[1] = 1 /\ out[5] = 0

(***************************************************************************)
(* Properties of the dispatch of whole messages.                           *)
(***************************************************************************)
\* The last operation was the parsing of a whole message of n bytes whose
\* first byte is one of the given ones.
ParsedMessage(firstBytes, n) ==
  /\ lastOp.op = "message"
  /\ Len(lastOp.args) = n
  /\ lastOp.args[1] \in firstBytes

\* The analog writes, on any channel.
AnalogWrites == ANALOG_MESSAGE..(ANALOG_MESSAGE + 15)

\* C11, as claimed: an analog write [0xE0 | ch, lo, hi] is dispatched once to
\* the sysex handler as (EXTENDED_ANALOG, 3, [ch, hi, lo]), high byte of the
\* value first, and the parser is Idle afterwards.
C11_AnalogRepackedHighFirst ==
  (ParsedMessage(AnalogWrites, 3) /\ currentSysexCallback # NULL) =>
    LET ch == lastOp.args[1] - ANALOG_MESSAGE
        lo == lastOp.args[2]
        hi == lastOp.args[3]
    IN /\ calls = << Invocation("sysex", currentSysexCallback,
                                << EXTENDED_ANALOG, 3, ch, hi, lo >>) >>
       /\ ~isParsingMessage

\* C11, amended: an analog write [0xE0 | ch, lo, hi] is repacked in the
\* buffer as [EXTENDED_ANALOG, ch, lo, hi], low byte of the value first, and
\* dispatched once to the sysex handler as (EXTENDED_ANALOG, 3, [ch, lo, hi]),
\* the value being lo | (hi << 7); with no sysex handler nothing is invoked;
\* the parser is Idle afterwards.
C11_AnalogRepackedLowFirst ==
  ParsedMessage(AnalogWrites, 3) =>
    LET ch == lastOp.args[1] - ANALOG_MESSAGE
        lo == lastOp.args[2]
        hi == lastOp.args[3]
    IN /\ calls = IF currentSysexCallback # NULL
                  THEN << Invocation("sysex", currentSysexCallback,
                                     << EXTENDED_ANALOG, 3, ch, lo, hi >>) >>
                  ELSE << >>
       /\ \A k \in 0..3 :
            storedInputData[k] = << EXTENDED_ANALOG, ch, lo, hi >>[k + 1]
       /\ storedInputData[2] + 128 * storedInputData[3] = lo + 128 * hi
       /\ out = << >>
       /\ ~isParsingMessage /\ executeMultiByteCommand = 0

\* [0xE0, 0x7F, 0x01] has been dispatched, carrying 255.
C11_Witness ==
  /\ lastOp = [op |-> "message", args |-> << ANALOG_MESSAGE, 127, 1 >>]
  /\ Len(calls) = 1
  /\ calls[1].args = << EXTENDED_ANALOG, 3, 0, 127, 1 >>
  /\ calls[1].args[4] + 128 * calls[1].args[5] = 255

(***************************************************************************)
(* Properties of the dispatch of sysex messages.                           *)
(***************************************************************************)
\* The last operation was the parsing of a whole sysex message with the
\* given sub-command: START_SYSEX, the sub-command, a payload, END_SYSEX.
ParsedSysex(subCommand) ==
  /\ lastOp.op = "message"
  /\ Len(lastOp.args) >= 3
  /\ lastOp.args[1] = START_SYSEX
  /\ lastOp.args[2] = subCommand
  /\ lastOp.args[Len(lastOp.args)] = END_SYSEX

\* The number of payload bytes of the sysex message parsed last.
PayloadLength == Len(lastOp.args) - 3

\* Payload byte i (from 0) of the sysex message parsed last.
PayloadByte(i) == lastOp.args[i + 3]

\* Character i (from 0) of the string message parsed last:
\* payload[2i] | (payload[2i+1] << 7), truncated to 8 bits.
Character(i) == (PayloadByte(2 * i) + 128 * PayloadByte(2 * i + 1)) % 256

\* The last operation was the parsing of a string message of 2k payload
\* bytes, k >= 1, with a string handler registered.
ParsedString(k) ==
  /\ ParsedSysex(STRING_DATA)
  /\ PayloadLength = 2 * k
  /\ k >= 1
  /\ currentStringCallback # NULL

\* The characters 0..k-1 of the string message parsed last, up to the first
\* that is zero.
CharactersToZero(k) ==
  LET ends == { n \in 0..k : n = k \/ Character(n) = 0 }
      end == CHOOSE n \in ends : \A m \in ends : n <= m
  IN [x \in 1..end |-> Character(x - 1)]

\* C12, as claimed: a string message of 2k payload bytes, k >= 1, invokes the
\* registered string handler exactly once with a string of k characters,
\* character i being payload[2i] | (payload[2i+1] << 7) truncated to 8 bits.
C12_StringOfKCharacters ==
  \A k \in 1..MAX_DATA_BYTES :
    ParsedString(k) =>
      calls = << Invocation("string", currentStringCallback,
                            [x \in 1..k |-> Character(x - 1)]) >>

\* C12, amended: a string message of 2k payload bytes, k >= 1, leaves the k
\* decoded characters at the start of the buffer, character i being
\* payload[2i] | (payload[2i+1] << 7) truncated to 8 bits, followed by a zero
\* unless the last character is zero itself, and invokes the registered
\* string handler exactly once with the start of the buffer: a
\* zero-terminated string inside the buffer that consists of the characters
\* before the first zero character, all k of them when none is zero.
C12_StringUpToFirstZero ==
  \A k \in 1..MAX_DATA_BYTES :
    ParsedString(k) =>
      /\ k < MAX_DATA_BYTES
      /\ \A i \in 0..(k - 1) : storedInputData[i] = Character(i)
      /\ Character(k - 1) # 0 => storedInputData[k] = 0
      /\ calls = << Invocation("string", currentStringCallback,
                               CharactersToZero(k)) >>
      /\ Len(calls[1].args) <= k
      /\ (\A i \in 0..(k - 1) : Character(i) # 0) => Len(calls[1].args) = k
      /\ out = << >>
      /\ ~bufferOverrun

\* "Hi" has been delivered to the string handler.
C12_Witness ==
  /\ lastOp = [op |-> "message", args |-> HiMessage]
  /\ Len(calls) = 1
  /\ calls[1].cb = "string"
  /\ calls[1].args = << 72, 105 >>

\* The generic sysex handler was handed the message parsed last: its
\* sub-command, the number of its payload bytes, and those bytes in arrival
\* order; with no handler registered nothing was invoked. Nothing was written.
ForwardedVerbatim ==
  /\ calls = IF currentSysexCallback # NULL
             THEN << Invocation("sysex", currentSysexCallback,
                       << lastOp.args[2], PayloadLength >>
                         \o [i \in 1..PayloadLength |-> PayloadByte(i - 1)]) >>
             ELSE << >>
  /\ out = << >>

\* C13 (as claimed): a completed sysex message whose sub-command is neither
\* REPORT_FIRMWARE nor STRING_DATA is handed once to the generic sysex
\* handler, if one is registered, as (sub-command, number of payload bytes,
\* payload bytes in arrival order); with none registered nothing is invoked
\* and nothing is written; the parser is Idle either way.
C13_GenericSysexForwarded ==
  (\E sub \in SubCommands \ { REPORT_FIRMWARE, STRING_DATA } :
     ParsedSysex(sub)) =>
    /\ ForwardedVerbatim
    /\ ~isParsingMessage

(***************************************************************************)
(* Properties of the callback registry.                                    *)
(***************************************************************************)
\* C14: every category has one slot, empty at first; attach(category, f)
\* leaves f in the slot whatever it held, detach(category) leaves it empty,
\* and no other operation (an attach or detach of another category, a parsed
\* message) changes it, so the slot holds the handler attached last, or
\* nothing if the detach came last; one whole message invokes at most one
\* handler.
C14_LastAttachWins ==
  /\ \A c \in Categories : Slot(c) = NULL
  /\ [][\A c \in Categories :
          Slot(c)' =
            IF lastOp'.op = "attach" /\ lastOp'.args[1] = c
            THEN lastOp'.args[2]
            ELSE IF lastOp' = [op |-> "detach", args |-> << c >>]
                 THEN NULL
                 ELSE Slot(c)]_vars
  /\ [](lastOp.op = "message" => Len(calls) <= 1)

\* A digital write has invoked the handler 2 of its category and no other,
\* while the sysex slot holds handler 1.
C14_Witness ==
  /\ lastOp = [op |-> "message", args |-> << DIGITAL_MESSAGE, 0, 0 >>]
  /\ calls = << Invocation("digital", 2, << 0, 0 >>) >>
  /\ Slot(DIGITAL_MESSAGE) = 2
  /\ Slot(START_SYSEX) = 1

(***************************************************************************)
(* Properties of the system reset.                                         *)
(***************************************************************************)
\* The fields of the engine: parser, buffer, pin table, firmware name and
\* version, callback registry.
EngineFields ==
  << waitForData, executeMultiByteCommand, multiByteChannel, storedInputData,
     parsingSysex, sysexBytesRead, pinConfig, pinState, firmwareVersionName,
     firmwareVersionMajor, firmwareVersionMinor, currentDigitalCallback,
     currentReportAnalogCallback, currentReportDigitalCallback,
     currentPinModeCallback, currentPinValueCallback,
     currentSystemResetCallback, currentStringCallback, currentSysexCallback >>

\* C17: a SYSTEM_RESET byte parsed right after a SYSTEM_RESET byte changes no
\* field of the engine (parser fields, buffer, pin table, callback registry),
\* whatever state the first of the two was parsed in; it invokes the reset
\* handler once more, if one is registered, and writes nothing.
C17_ResetIsIdempotent ==
  [][(Parsed(SYSTEM_RESET) /\ Parsed(SYSTEM_RESET)') =>
       /\ EngineFields' = EngineFields
       /\ calls' = calls
       /\ out' = << >>]_vars

\* A SYSTEM_RESET has been parsed by a parser with nothing in progress, as a
\* SYSTEM_RESET leaves it, and it invoked the registered reset handler.
C17_Witness ==
  /\ Parsed(SYSTEM_RESET)
  /\ pre = [parsingSysex |-> FALSE, waitForData |-> 0, sysexBytesRead |-> 0]
  /\ calls = << Invocation("systemReset", currentSystemResetCallback, << >>) >>
  /\ currentSystemResetCallback # NULL
  /\ ~isParsingMessage

(***************************************************************************)
(* Properties of the fixed-length messages.                                *)
(***************************************************************************)
\* The commands followed by two data bytes, and those followed by one.
TwoByteCommands ==
  { DIGITAL_MESSAGE, ANALOG_MESSAGE, SET_PIN_MODE, SET_DIGITAL_PIN_VALUE }

OneByteCommands == { REPORT_ANALOG, REPORT_DIGITAL }

\* The command of a status byte: its high nibble below 0xF0, itself from there.
CommandOf(inputData) ==
  IF inputData < 240 THEN (inputData \div 16) * 16 ELSE inputData

\* The category of the handler a completed fixed-length message is for, and
\* its slot; an analog write goes to the sysex handler.
CategoryOf(command) ==
  CASE command = DIGITAL_MESSAGE -> "digital"
    [] command = ANALOG_MESSAGE -> "sysex"
    [] command = SET_PIN_MODE -> "pinMode"
    [] command = SET_DIGITAL_PIN_VALUE -> "pinValue"
    [] command = REPORT_ANALOG -> "reportAnalog"
    [] command = REPORT_DIGITAL -> "reportDigital"

SlotOf(command) ==
  IF command = ANALOG_MESSAGE THEN currentSysexCallback ELSE Slot(command)

\* This step is parse() of a status byte by an Idle parser.
ParsesCommandFromIdle ==
  /\ lastOp'.op = "parse"
  /\ lastOp'.args[1] >= 128
  /\ ~isParsingMessage

\* This step is parse() of a data byte by a parser that awaits n data bytes
\* of a fixed-length message.
ParsesDataByte(n) ==
  /\ lastOp'.op = "parse"
  /\ lastOp'.args[1] < 128
  /\ ~parsingSysex
  /\ waitForData = n
  /\ executeMultiByteCommand \in TwoByteCommands \cup OneByteCommands

\* This step invoked the handler of the awaited message once, if one is
\* registered, and no other.
HandlerRuns ==
  IF SlotOf(executeMultiByteCommand) # NULL
  THEN /\ Len(calls') = 1
       /\ calls'[1].cb = CategoryOf(executeMultiByteCommand)
       /\ calls'[1].fn = SlotOf(executeMultiByteCommand)
  ELSE calls' = << >>

\* This step ran setPinMode() on the pin the awaited message names: on a pin
\* of the board that is not ignored it stored the mode and invoked the
\* handler, on an ignored pin it did nothing, and for a pin the board does
\* not have it accessed memory outside the pin table.
SetPinModeRuns ==
  LET pin == storedInputData[1] IN
  IF pin >= TOTAL_PINS THEN pinOverrun'
  ELSE IF pinConfig[pin] = PIN_MODE_IGNORE
  THEN calls' = << >> /\ pinConfig' = pinConfig
  ELSE pinConfig'[pin] = lastOp'.args[1] /\ HandlerRuns

\* C18: a digital-write, analog-write, set-pin-mode or set-pin-value status
\* byte parsed by an Idle parser makes it await 2 data bytes of that command
\* and an analog-report or digital-report status byte 1, without running a
\* handler; the first of two data bytes runs no handler and changes no pin;
\* the parse() call that consumes the last awaited data byte runs the
\* message's handler (setPinMode() for set-pin-mode), and when it returns,
\* the memory of the engine being intact, the parser is Idle with
\* waitForData = 0 and executeMultiByteCommand = 0.
C18_FixedMessageTiming ==
  [][/\ ParsesCommandFromIdle =>
          LET command == CommandOf(lastOp'.args[1]) IN
          /\ command \in TwoByteCommands =>
                /\ waitForData' = 2
                /\ executeMultiByteCommand' = command
                /\ calls' = << >>
                /\ ~parsingSysex'
          /\ command \in OneByteCommands =>
                /\ waitForData' = 1
                /\ executeMultiByteCommand' = command
                /\ calls' = << >>
                /\ ~parsingSysex'
     /\ ParsesDataByte(2) =>
          /\ waitForData' = 1
          /\ executeMultiByteCommand' = executeMultiByteCommand
          /\ calls' = << >>
          /\ pinConfig' = pinConfig /\ pinState' = pinState
          /\ ~pinOverrun'
     /\ ParsesDataByte(1) =>
          /\ IF executeMultiByteCommand = SET_PIN_MODE
             THEN SetPinModeRuns
             ELSE HandlerRuns
          /\ Intact' => /\ waitForData' = 0
                         /\ executeMultiByteCommand' = 0
                         /\ ~isParsingMessage']_vars

\* The second data byte of a digital write has just been parsed: the digital
\* handler ran in that call and the parser is Idle.
C18_Witness ==
  /\ lastOp = [op |-> "parse", args |-> << 1 >>]
  /\ pre = [parsingSysex |-> FALSE, waitForData |-> 1, sysexBytesRead |-> 0]
  /\ Len(calls) = 1
  /\ calls[1].cb = "digital"
  /\ waitForData = 0
  /\ executeMultiByteCommand = 0

\* The invocation of the handler in a slot, if there is one, and nothing
\* otherwise.
InvokedIfRegistered(category, handler, args) ==
  IF handler # NULL THEN << Invocation(category, handler, args) >> ELSE << >>

\* C19: a completed fixed-length message with first-arrived data byte a and
\* second-arrived data byte b is dispatched as follows: a digital write
\* [0x90 | port, a, b] invokes the digital handler with (port, a | (b << 7));
\* a set-pin-mode [0xF4, a, b] calls setPinMode(a, b), which on a pin of the
\* board that is not ignored zeroes its state, stores mode b and invokes the
\* pin-mode handler with (a, b), on an ignored pin does nothing, and for a
\* pin the board does not have accesses memory outside the pin table; a
\* set-pin-value [0xF5, a, b] invokes the pin-value handler with (a, b); the
\* report toggles [0xC0 | ch, a] and [0xD0 | ch, a] invoke their handler with
\* (ch, a).  A handler is invoked if registered, and no other is.
C19_FixedMessageArguments ==
  [][lastOp'.op = "message" =>
       LET message == lastOp'.args
           command == CommandOf(message[1])
           channel == message[1] % 16
           a == message[2]
           b == message[3]
       IN
       /\ (command = DIGITAL_MESSAGE /\ Len(message) = 3) =>
            calls' = InvokedIfRegistered("digital", currentDigitalCallback,
                                         << channel, a + 128 * b >>)
       /\ (command = SET_PIN_MODE /\ Len(message) = 3) =>
            IF a >= TOTAL_PINS THEN pinOverrun'
            ELSE IF pinConfig[a] = PIN_MODE_IGNORE
            THEN /\ calls' = << >>
                 /\ pinConfig' = pinConfig /\ pinState' = pinState
            ELSE /\ pinConfig' = [pinConfig EXCEPT ![a] = b]
                 /\ pinState' = [pinState EXCEPT ![a] = 0]
                 /\ calls' = InvokedIfRegistered("pinMode",
                                currentPinModeCallback, << a, b >>)
       /\ (command = SET_DIGITAL_PIN_VALUE /\ Len(message) = 3) =>
            calls' = InvokedIfRegistered("pinValue", currentPinValueCallback,
                                         << a, b >>)
       /\ (command = REPORT_ANALOG /\ Len(message) = 2) =>
            calls' = InvokedIfRegistered("reportAnalog",
                       currentReportAnalogCallback, << channel, a >>)
       /\ (command = REPORT_DIGITAL /\ Len(message) = 2) =>
            calls' = InvokedIfRegistered("reportDigital",
                       currentReportDigitalCallback, << channel, a >>)]_vars

\* The digital write [0x91, 0x7F, 0x01] has been dispatched to the digital
\* handler as port 1 with value 255.
C19_Witness ==
  /\ lastOp = [op |-> "message", args |-> << DIGITAL_MESSAGE + 1, 127, 1 >>]
  /\ Len(calls) = 1
  /\ calls[1].cb = "digital"
  /\ calls[1].args = << 1, 255 >>

(***************************************************************************)
(* Properties of the pin table.                                            *)
(***************************************************************************)
\* The mode this step asks for, when it sets the mode of a pin.
ModeAsked ==
  IF lastOp'.op = "setPinMode" THEN lastOp'.args[2] ELSE lastOp'.args[1]

\* C20: setPinMode(pin, mode), called by the sketch or for a SET_PIN_MODE
\* message, on a pin of the board whose mode is not PIN_MODE_IGNORE leaves
\* the pin with state 0 and the new mode, every other pin as it was, and
\* invokes the pin-mode handler, if registered, once with (pin, mode); and
\* whatever the operation (a setPinMode or setPinState call, a parsed byte, a
\* reset), a pin whose mode has changed has state 0 right after the change.
C20_ModeChangeZeroesState ==
  [][\A p \in 0..(TOTAL_PINS - 1) :
       /\ (SetsModeOf(p) /\ pinConfig[p] # PIN_MODE_IGNORE) =>
            /\ pinState' = [pinState EXCEPT ![p] = 0]
            /\ pinConfig' = [pinConfig EXCEPT ![p] = ModeAsked]
            /\ calls' = InvokedIfRegistered("pinMode", currentPinModeCallback,
                                            << p, ModeAsked >>)
       /\ pinConfig'[p] # pinConfig[p] => pinState'[p] = 0]_vars

\* setPinMode(0, 1) has just given pin 0 the mode 1 and the state 0 and
\* invoked the pin-mode handler with (0, 1), while pin 1 keeps the state 1
\* the sketch gave it.
C20_Witness ==
  /\ lastOp = [op |-> "setPinMode", args |-> << 0, 1 >>]
  /\ pinConfig[0] = 1
  /\ pinState[0] = 0
  /\ pinState[1] = 1
  /\ calls = << Invocation("pinMode", currentPinModeCallback, << 0, 1 >>) >>
  /\ currentPinModeCallback # NULL

(***************************************************************************)
(* Properties of the end of a sysex message.                               *)
(***************************************************************************)
\* C21 (as claimed): when a parser that collects sysex has parsed END_SYSEX,
\* it is Idle (isParsingMessage() is false), whatever it was doing when the
\* START_SYSEX of the message arrived.
C21_IdleAfterEndSysex ==
  (Parsed(END_SYSEX) /\ pre.parsingSysex) => ~isParsingMessage

(***************************************************************************)
(* Properties of the bytes that are no message.                            *)
(***************************************************************************)
\* C22: parse() of a byte that is no recognised command (a byte below 0x80,
\* 0x80..0x8F, 0xA0..0xBF, 0xF1..0xF3, 0xF6..0xF8, 0xFA..0xFE) by an Idle
\* parser leaves the parser Idle (waitForData 0, not collecting sysex, the
\* pending command, the buffer and the sysex count as they were), invokes no
\* handler and writes nothing.
C22_UnrecognisedByteDiscarded ==
  [][(/\ lastOp'.op = "parse"
      /\ lastOp'.args[1] \in UnrecognisedBytes
      /\ ~isParsingMessage) =>
       /\ ~isParsingMessage'
       /\ waitForData' = 0 /\ ~parsingSysex'
       /\ executeMultiByteCommand' = executeMultiByteCommand
       /\ storedInputData' = storedInputData
       /\ sysexBytesRead' = sysexBytesRead
       /\ pinConfig' = pinConfig /\ pinState' = pinState
       /\ calls' = << >>
       /\ out' = << >>]_vars

\* The status byte 0xBF has just been parsed by an Idle parser with handlers
\* registered, after a sysex message had left its payload in the buffer.
C22_Witness ==
  /\ Parsed(191)
  /\ pre = [parsingSysex |-> FALSE, waitForData |-> 0, sysexBytesRead |-> 2]
  /\ currentSysexCallback # NULL
  /\ storedInputData[0] = 1
  /\ calls = << >>
  /\ out = << >>
  /\ ~isParsingMessage

\* The three bytes of the version reply.
VersionReply ==
  << REPORT_VERSION, FIRMATA_PROTOCOL_MAJOR_VERSION,
     FIRMATA_PROTOCOL_MINOR_VERSION >>

\* C23: parse(REPORT_VERSION) by a parser that is not collecting sysex writes
\* exactly [0xF9, protocol major, protocol minor], changes no parser field
\* (collecting flag, data bytes awaited, pending command, channel, buffer,
\* sysex count) and invokes no handler; by a parser that is collecting sysex
\* it stores the byte in the buffer as the next payload byte, invokes no
\* handler and writes no version reply: it writes nothing, or, when the byte
\* has filled the buffer, the diagnostic of the discarded message.
C23_VersionReply ==
  [][(lastOp'.op = "parse" /\ lastOp'.args[1] = REPORT_VERSION) =>
       IF ~parsingSysex
       THEN /\ out' = VersionReply
            /\ calls' = << >>
            /\ ~parsingSysex'
            /\ waitForData' = waitForData
            /\ executeMultiByteCommand' = executeMultiByteCommand
            /\ multiByteChannel' = multiByteChannel
            /\ storedInputData' = storedInputData
            /\ sysexBytesRead' = sysexBytesRead
       ELSE /\ storedInputData' =
                 [storedInputData EXCEPT ![sysexBytesRead] = REPORT_VERSION]
            /\ calls' = << >>
            /\ IF sysexBytesRead + 1 < MAX_DATA_BYTES
               THEN /\ out' = << >>
                    /\ parsingSysex'
                    /\ sysexBytesRead' = sysexBytesRead + 1
               ELSE out' = DiagnosticMessage]_vars

\* A version query has just been answered while the parser awaited the second
\* data byte of a digital write.
C23_Witness ==
  /\ Parsed(REPORT_VERSION)
  /\ pre = [parsingSysex |-> FALSE, waitForData |-> 1, sysexBytesRead |-> 0]
  /\ out = VersionReply
  /\ waitForData = 1
  /\ executeMultiByteCommand = DIGITAL_MESSAGE

(***************************************************************************)
(* Properties of degenerate sysex messages.                                *)
(***************************************************************************)
\* C24 (as claimed): a string message with no payload byte or with a single
\* payload byte invokes no handler, the string handler or any other, and
\* leaves the parser Idle.
C24_DegenerateStringIgnored ==
  (ParsedSysex(STRING_DATA) /\ PayloadLength <= 1) =>
    /\ calls = << >>
    /\ ~isParsingMessage

(***************************************************************************)
(* Properties of the bulk copy of block mode.                              *)
(***************************************************************************)
\* C25 (as claimed): processInput() in block mode never writes
\* storedInputData at an index >= MAX_DATA_BYTES, and when it returns the
\* payload collected is shorter than the buffer: a payload that would exceed
\* the capacity has been discarded and the parser is Idle.
C25_BulkCopyStaysInBuffer ==
  lastOp.op = "processInput" =>
    /\ ~bufferOverrun
    /\ sysexBytesRead < MAX_DATA_BYTES

(***************************************************************************)
(* Properties of the analog writes.                                        *)
(***************************************************************************)
\* C26: with a sysex handler registered, the analog write of (p, lo, hi) in
\* the fixed form [0xE0 | p, lo, hi] and in the extended form
\* [0xF0, 0x6F, p, lo, hi, 0xF7] each invoke the sysex handler exactly once,
\* and no other, with sub-command EXTENDED_ANALOG, payload length 3 and
\* payload [p, lo, hi]: whichever form has just been parsed, that is what was
\* invoked, and from the state reached the two forms of any analog write
\* lead to the same invocation.
C26_AnalogFunnel ==
  currentSysexCallback # NULL =>
    /\ \A p \in AnalogChannels, lo \in AnalogData, hi \in AnalogData :
         lastOp.args \in { FixedAnalog(p, lo, hi), ExtendedAnalog(p, lo, hi) } =>
           calls = << Invocation("sysex", currentSysexCallback,
                                 << EXTENDED_ANALOG, 3, p, lo, hi >>) >>
    /\ Intact =>
         \A p \in AnalogChannels, lo \in AnalogData, hi \in AnalogData :
           LET fixed == FixedAnalog(p, lo, hi)
               extended == ExtendedAnalog(p, lo, hi)
           IN /\ parseAll(Entry, fixed, 0, Len(fixed)).calls
                   = parseAll(Entry, extended, 0, Len(extended)).calls
              /\ Len(parseAll(Entry, fixed, 0, Len(fixed)).calls) = 1

\* The analog write of 127 to channel 15 has been parsed in its extended
\* form and handed to the sysex handler, as its fixed form would be.
C26_Witness ==
  /\ lastOp = [op |-> "message", args |-> ExtendedAnalog(15, 127, 0)]
  /\ calls = << Invocation("sysex", currentSysexCallback,
                           << EXTENDED_ANALOG, 3, 15, 127, 0 >>) >>
  /\ currentSysexCallback # NULL
  /\ parseAll(Entry, FixedAnalog(15, 127, 0), 0, 3).calls = calls

(***************************************************************************)
(* Properties of the pin table's bounds.                                   *)
(***************************************************************************)
\* C27 (as claimed): no parsed byte makes the engine read or write pinConfig
\* or pinState at an index outside 0..TOTAL_PINS-1.
C27_PinIndexInsideTable == lastOp.op = "parse" => ~pinOverrun

\* C28 (as claimed): an empty sysex message, START_SYSEX followed at once by
\* END_SYSEX, invokes no handler and writes nothing.
C28_EmptySysexIgnored ==
  (Parsed(END_SYSEX) /\ pre.parsingSysex /\ pre.sysexBytesRead = 0) =>
    /\ calls = << >>
    /\ out = << >>

(***************************************************************************)
(* Properties of the registry's categories.                                *)
(***************************************************************************)
\* The name under which the invocations of a category's handler are recorded.
CategoryName(command) ==
  CASE command = SYSTEM_RESET -> "systemReset"
    [] command = STRING_DATA -> "string"
    [] command = START_SYSEX -> "sysex"
    [] OTHER -> CategoryOf(command)

\* The invocations among cs that are not of the category's handler.
OtherInvocations(cs, command) ==
  SelectSeq(cs, LAMBDA c : c.cb # CategoryName(command))

\* The category in which the second engine has no handler.
Unregistered ==
  CHOOSE command \in Categories : detach(reference, command) = reference

\* C29 (as claimed): of two engines fed the same bytes that differ only in
\* whether category X has a handler, each byte makes the handlers of every
\* other category receive the same invocations with the same arguments, and
\* leaves both parsers in the same phase.
C29_CategoriesIndependent ==
  lastOp.op = "parse" =>
    /\ OtherInvocations(calls, Unregistered)
         = OtherInvocations(reference.calls, Unregistered)
    /\ reference.parsingSysex = parsingSysex
    /\ reference.waitForData = waitForData

(***************************************************************************)
(* Properties of the channel of a message.                                 *)
(***************************************************************************)
\* The data bytes of the message parsed last, in arrival order.
DataOf(message) == SelectSeq(message, LAMBDA b : b < 128)

\* C30 (as claimed): a completed digital write, analog write or report
\* toggle is delivered to its handler with the low nibble of its own command
\* byte as the channel and with its own data, also when an unrecognised
\* status byte of 0x80..0x8F or 0xA0..0xBF arrived between the command byte
\* and the last data byte.
C30_ChannelOfOwnCommand ==
  (lastOp.op = "message" /\ lastOp.args[1] < 240) =>
    LET command == CommandOf(lastOp.args[1])
        channel == lastOp.args[1] % 16
        data == DataOf(lastOp.args)
    IN calls =
         InvokedIfRegistered(CategoryOf(command), SlotOf(command),
           CASE command = DIGITAL_MESSAGE ->
                  << channel, data[1] + 128 * data[2] >>
             [] command = ANALOG_MESSAGE ->
                  << EXTENDED_ANALOG, 3, channel, data[1], data[2] >>
             [] OTHER -> << channel, data[1] >>)

(***************************************************************************)
(* Properties of interrupted messages.                                     *)
(***************************************************************************)
\* C31 (as claimed): when a fixed-length message is interrupted before its
\* last data byte by a command byte that starts another message, a
\* fixed-length command or START_SYSEX, the handler of the interrupted
\* message is not invoked, neither by the interrupting message nor by the
\* data bytes that follow it, and those data bytes leave the parser Idle.
C31_InterruptedMessageAbandoned ==
  (lastOp.op = "message" /\ lastOp.args \in InterruptedMessages) =>
    /\ \A i \in 1..Len(calls) :
         calls[i].cb # CategoryOf(CommandOf(lastOp.args[1]))
    /\ ~isParsingMessage

====
